---- MODULE Spec2Model ----
(***************************************************************************)
(* State-machine model of the civic-complaint management system:           *)
(*   - the status-log seed and the complaint-update validator,             *)
(*   - the user/ward controller (users, wards, sub-zones, OTP sessions),   *)
(*   - the SLA computation of the Kochi seed,                              *)
(*   - the guest router's middleware pipelines.                            *)
(* Each part has its own variables, its own Init and Next and its own      *)
(* specification; the variables of the other parts stay at their idle      *)
(* value.                                                                  *)
(***************************************************************************)
EXTENDS Integers, Sequences, FiniteSets, TLC

VARIABLES
  \* ---- complaint status: seed of status logs, update validator
  seedI,          \* loop variable i of the status-log seed
  seedPc,         \* position of the seed inside one loop iteration
  statusLogs,     \* StatusLog rows in insertion order
  updateReq       \* the last complaint-update request that was validated

VARIABLES
  \* ---- user/ward controller: the database tables it reads and writes
  users,          \* User rows: [id, email, role, isActive, wardId, password]
  wards,          \* Ward rows: [id, name, isActive]
  subZones,       \* SubZone rows: [id, name, wardId, isActive]
  complaints,     \* Complaint rows: [id, status, wardId, subZoneId]
  otpSessions,    \* OTPSession rows
  now,            \* the server clock, in minutes
  resp,           \* the last response a controller handler sent
  calls,          \* number of requests handled so far
  verifyReq       \* in-flight verifyPasswordSetupOTP requests, step by step

VARIABLES
  \* ---- Kochi seed: complaint generation and SLA status
  clock,          \* the wall clock the seed reads with new Date(), in hours
  kochiPc,        \* position of the seed: "idle", "loop" or "done"
  kochiNow,       \* main's local now, read once before the loop
  kochiComplaints, \* the complaints array: the rows created so far
  complaintTable,  \* the complaintId of every row of the complaint table
  complaintCounter \* let complaintCounter of the seed

VARIABLES
  \* ---- guest router
  guestReq,       \* the last POST to a guest route: [route, body, file]
  guestPending,   \* the POST is in flight: the router has not handled it yet
  guestResp,      \* what became of it: middleware run, answer, controller
  otpHits,        \* guestOtpLimiter's count for the client in this window
  nodeEnv,        \* process.env.NODE_ENV
  admitted        \* per route, the requests the limiter let pass in this window

VARIABLES
  \* ---- web client: the Redux data slice and the getWards queries
  locations,      \* state.data.locations: [wards, subZones]
  wardQueries,    \* getWards queries whose response has not been processed
  lastDeep,       \* the wards of the last include=subzones response dispatched
  queryResult,    \* what baseQueryWithReauth returned for the last answer
  formData,       \* QuickComplaintForm's formData state
  captcha,        \* the CAPTCHA text typed into the form
  isSubmittingLocal, \* the form's own "submission in progress" flag
  formPc,         \* handleSubmit: "idle", or "awaiting" the API's answer
  formEvent,      \* what the last handleSubmit call or API answer showed
  submitClosure,  \* the state the memoized handleSubmit callback has captured
  renderedDisabled, \* the submit button's disabled attribute as last rendered
  needsRender,    \* state has changed since the last render
  inFlight        \* the form's API requests that have not been answered

VARIABLES
  \* ---- user/ward controller: requests in progress
  deleteReq       \* in-flight deleteUser requests, step by step

VARIABLES
  \* ---- history
  verifiedTokens  \* the tokens verifyAccount has accepted so far

statusVars == <<seedI, seedPc, statusLogs, updateReq>>
dbVars == <<users, wards, subZones, complaints, otpSessions, now, resp, calls,
            verifyReq>>

kochiVars ==
  <<clock, kochiPc, kochiNow, kochiComplaints, complaintTable,
    complaintCounter>>

routeVars == <<guestReq, guestPending, guestResp, otpHits, nodeEnv, admitted>>

storeVars == <<locations, wardQueries, lastDeep, queryResult>>
formVars == <<formData, captcha, isSubmittingLocal, formPc, formEvent,
              submitClosure, renderedDisabled, needsRender, inFlight>>
clientVars == <<storeVars, formVars>>
historyVars == <<verifiedTokens, deleteReq>>

vars == <<statusVars, dbVars, kochiVars, routeVars, clientVars, historyVars>>

\* What the actions of one part leave alone: the variables of the others.
outsideStatus ==
  <<users, wards, subZones, otpSessions, now, resp, calls, verifyReq, kochiVars,
    routeVars, clientVars, historyVars>>
outsideDb == <<statusVars, kochiVars, routeVars, clientVars, historyVars>>
outsideKochi == <<statusVars, dbVars, routeVars, clientVars, historyVars>>
outsideRoutes == <<statusVars, dbVars, kochiVars, clientVars, historyVars>>
outsideClient == <<statusVars, dbVars, kochiVars, routeVars, historyVars>>
\* The tables the user and OTP handlers never write, and the OTP state the
\* user and ward handlers never write.
wardSide == <<wards, subZones, complaints>>
otpSide == <<otpSessions, verifyReq>>

\* A field that is absent from a request body, and a null column.
Absent == "absent"
Null == "null"

(***************************************************************************)
(* Complaint status: the seed's StatusLog rows and validateComplaintUpdate *)
(***************************************************************************)

\* The six values validateComplaintUpdate lists for body("status").
StatusEnum ==
  {"REGISTERED", "ASSIGNED", "IN_PROGRESS", "RESOLVED", "CLOSED", "REOPENED"}

\* WARD_ID and SUB_ZONE_ID, the rows every seeded complaint points to.
SeedWardId == 1
SeedSubZoneId == 1

\* Number of complaints the status-log seed creates (for i = 0; i < 5).
SeedComplaints == 5

\* Values a client may send as body.status: a listed one, none, or another.
RequestStatuses == StatusEnum \cup {Absent, "ARCHIVED"}

\* body("status").optional().isIn([...]): an absent field is skipped, a
\* present one must be one of the six listed values.
StatusFieldValid(s) == s = Absent \/ s \in StatusEnum

\* The errors express-validator collects for a complaint-update body (only
\* the status field is varied; priority, assignedToId, comment are absent).
ComplaintUpdateErrors(s) ==
  IF StatusFieldValid(s) THEN {}
  ELSE {[field |-> "status", message |-> "Invalid status", value |-> s]}

\* handleValidationErrors: 400 when the result is not empty, next() otherwise.
HandleValidationOutcome(errors) == IF errors = {} THEN "next" ELSE "400"

StatusIdle ==
  /\ seedI = 0
  /\ seedPc = "idle"
  /\ statusLogs = << >>
  /\ updateReq = [complaintId |-> 0, fromStatus |-> Null, status |-> Absent,
                  outcome |-> "none"]

StatusInitState ==
  /\ seedI = 0
  /\ seedPc = "create"
  /\ statusLogs = << >>
  /\ updateReq = [complaintId |-> 0, fromStatus |-> Null, status |-> Absent,
                  outcome |-> "none"]

\* prisma.complaint.create of iteration i: the row is born RESOLVED.
SeedCreateComplaint ==
  /\ seedPc = "create"
  /\ seedI < SeedComplaints
  /\ complaints' = complaints \cup
       {[id |-> seedI + 1, status |-> "RESOLVED", wardId |-> SeedWardId,
         subZoneId |-> SeedSubZoneId]}
  /\ seedPc' = "logRegistered"
  /\ UNCHANGED <<seedI, statusLogs, updateReq, outsideStatus>>

\* 1. REGISTERED: fromStatus null.
SeedLogRegistered ==
  /\ seedPc = "logRegistered"
  /\ statusLogs' = Append(statusLogs,
       [complaintId |-> seedI + 1, fromStatus |-> Null,
        toStatus |-> "REGISTERED"])
  /\ seedPc' = "logInProgress"
  /\ UNCHANGED <<seedI, complaints, updateReq, outsideStatus>>

\* 2. IN_PROGRESS: fromStatus REGISTERED.
SeedLogInProgress ==
  /\ seedPc = "logInProgress"
  /\ statusLogs' = Append(statusLogs,
       [complaintId |-> seedI + 1, fromStatus |-> "REGISTERED",
        toStatus |-> "IN_PROGRESS"])
  /\ seedPc' = "logResolved"
  /\ UNCHANGED <<seedI, complaints, updateReq, outsideStatus>>

\* 3. RESOLVED: fromStatus IN_PROGRESS; then the loop goes on.
SeedLogResolved ==
  /\ seedPc = "logResolved"
  /\ statusLogs' = Append(statusLogs,
       [complaintId |-> seedI + 1, fromStatus |-> "IN_PROGRESS",
        toStatus |-> "RESOLVED"])
  /\ seedI' = seedI + 1
  /\ seedPc' = IF seedI + 1 < SeedComplaints THEN "create" ELSE "done"
  /\ UNCHANGED <<complaints, updateReq, outsideStatus>>

\* A database call of the seed throws: catch, process.exit(1).
SeedError ==
  /\ seedPc \in {"create", "logRegistered", "logInProgress", "logResolved"}
  /\ seedPc' = "failed"
  /\ UNCHANGED <<seedI, complaints, statusLogs, updateReq, outsideStatus>>

\* A complaint-update request for an existing complaint passes the
\* validateComplaintUpdate chain, handleValidationErrors last.
ValidateComplaintUpdate ==
  \E c \in complaints, s \in RequestStatuses :
    /\ updateReq' = [complaintId |-> c.id, fromStatus |-> c.status,
                     status |-> s,
                     outcome |->
                       HandleValidationOutcome(ComplaintUpdateErrors(s))]
    /\ UNCHANGED <<seedI, seedPc, complaints, statusLogs, outsideStatus>>

(***************************************************************************)
(* User/ward controller: shared definitions                                *)
(***************************************************************************)

\* The password column: empty, a bcrypt hash, or the JSON text that
\* createUser stores for an account-verification token.
NoPassword == [kind |-> "none"]
HashedPassword(p) == [kind |-> "hash", plain |-> p]

\* The check "does the user already have a password": JSON.parse succeeds
\* on the token text (no valid password), throws on a bcrypt hash (valid
\* password), and an empty column is no password.
HasValidPassword(pw) ==
  IF pw.kind = "token" THEN FALSE
  ELSE IF pw.kind = "hash" THEN TRUE
  ELSE FALSE

\* prisma.user.findUnique({where: {id}}): the set holding the row, or {}.
FindUserById(id) == {u \in users : u.id = id}

\* The {success, message, data} body the handlers build.
Envelope(ok, msg, data) == [success |-> ok, message |-> msg, data |-> data]

Response(handler, args, status, body) ==
  [handler |-> handler, args |-> args, status |-> status, body |-> body]

NoResponse == Response("none", << >>, 0, Envelope(TRUE, "", Null))

\* Clock: the model counts minutes and lets time pass in steps of 5.
TickMinutes == 5
MaxTime == 15
MaxCalls == 4

Tick ==
  /\ now + TickMinutes <= MaxTime
  /\ now' = now + TickMinutes
  /\ UNCHANGED <<users, otpSessions, resp, calls, verifyReq, wardSide, outsideDb>>

(***************************************************************************)
(* User management: createUser, updateUser, deleteUser, changePassword     *)
(***************************************************************************)

Roles == {"CITIZEN", "WARD_OFFICER", "MAINTENANCE_TEAM", "ADMINISTRATOR"}

\* Roles for which createUser sends a verification email.
VerificationRoles == {"WARD_OFFICER", "MAINTENANCE_TEAM"}

\* Date.now() + 24 * 60 * 60 * 1000, in minutes.
VerificationTtlMinutes == 1440

\* crypto.createHash("sha256").update(token).digest("hex"): the digest of a
\* token is another value, and different tokens have different digests.
Sha256Offset == 1000
sha256(token) == token + Sha256Offset

\* crypto.randomBytes(20): a value no earlier call has drawn; the model
\* takes the id of the user the token is for.
resetToken(userId) == userId

\* The JSON text createUser stores in the password column.
VerificationToken(token, t) ==
  [kind |-> "token", resetPasswordToken |-> token,
   resetPasswordExpire |-> t + VerificationTtlMinutes,
   isVerificationToken |-> TRUE]

\* Request inputs of the user handlers.
Emails == {"admin@x", "a@x"}
RequestEmails == Emails \cup {Absent}
RequestRoles == {"CITIZEN", "WARD_OFFICER", "ADMINISTRATOR", Absent}
Passwords == {"Secret1!", "weak"}
RequestPasswords == Passwords \cup {Absent}

\* validatePasswordStrength(password).isValid
IsStrongPassword(p) == p = "Secret1!"

\* A createUser that skips the look-up of the email.
FindUserByEmail_NoLookup(email) == {}

\* prisma.user.findUnique({where: {email}})
FindUserByEmail(email) == {u \in users : u.email = email}

\* An id no row has had: rows are created with ids in increasing order.
Max(S) == CHOOSE x \in S : \A y \in S : y <= x
NextUserId == Max({u.id : u \in users} \cup {0}) + 1

\* The fields of req.body that updateUser copies into the update.
AllowedFields ==
  {"fullName", "phoneNumber", "role", "wardId", "department", "isActive",
   "language"}

\* An exception that leaves the handler: asyncHandler passes it to the
\* error-handling middleware.
UnhandledError(handler, args) ==
  Response(handler, args, 500, Envelope(FALSE, "Server Error", Null))

\* A clean-up that deletes nothing.
DeleteCreatedUser_Keeps(rows, id) == rows

\* prisma.user.delete({where: {id: user.id}})
DeleteCreatedUser(rows, id) == {u \in rows : u.id # id}

\* createUser, the whole handler. emailSent is what sendEmail returns.
CreateUser(fullNameOk, email, role, password, emailSent) ==
  LET h == "createUser"
      args == <<email, role, fullNameOk>>
      validationErrors ==
        (IF ~fullNameOk THEN {"fullName"} ELSE {}) \cup
        (IF email = Absent THEN {"email"} ELSE {}) \cup
        (IF role = Absent THEN {"role"} ELSE {})
      hashedPassword ==
        IF role = "CITIZEN" /\ password # Absent THEN HashedPassword(password)
        ELSE IF role \in VerificationRoles THEN NoPassword
        ELSE IF role = "ADMINISTRATOR" /\ password # Absent
          THEN HashedPassword(password)
        ELSE NoPassword
      sendVerificationEmail ==
        ~(role = "CITIZEN" /\ password # Absent) /\ role \in VerificationRoles
      user == [id |-> NextUserId, email |-> email, role |-> role,
               isActive |-> TRUE, wardId |-> Null, password |-> hashedPassword]
  IN
  /\ calls < MaxCalls
  /\ calls' = calls + 1
  /\ UNCHANGED <<now, otpSide, wardSide, outsideDb>>
  /\ IF validationErrors # {} THEN
       /\ resp' = Response(h, args, 400,
            [success |-> FALSE, message |-> "Validation failed",
             errors |-> validationErrors, data |-> Null])
       /\ UNCHANGED users
     ELSE IF FindUserByEmail(email) # {} THEN
       /\ resp' = Response(h, args, 400,
            [success |-> FALSE, message |-> "User already exists with this email",
             errors |-> {"email"}, data |-> Null])
       /\ UNCHANGED users
     ELSE IF ~sendVerificationEmail THEN
       /\ users' = users \cup {user}
       /\ resp' = Response(h, args, 201,
            Envelope(TRUE, "User created successfully", "data"))
     ELSE IF emailSent THEN
       /\ users' = users \cup
            {[user EXCEPT !.password =
                VerificationToken(sha256(resetToken(user.id)), now)]}
       /\ resp' = Response(h, args, 201,
            Envelope(TRUE, "User created successfully. Verification email sent.",
                     "data"))
     ELSE
       \* created, token stored, email failed: the user is deleted again
       /\ users' =
            DeleteCreatedUser(
              users \cup {[user EXCEPT !.password =
                            VerificationToken(sha256(resetToken(user.id)), now)]},
              user.id)
       /\ resp' = Response(h, args, 500,
            Envelope(FALSE,
              "Failed to send verification email. User creation cancelled.",
              Null))

\* Request bodies of updateUser: each a record of the fields sent.
UpdateBodies ==
  {[role |-> "CITIZEN"], [role |-> "ADMINISTRATOR"], [isActive |-> FALSE],
   [isActive |-> TRUE, email |-> "a@x"], [email |-> "admin@x"]}

\* updates: the allowed fields of the body; data: the row after the update.
ApplyUpdates(u, body) ==
  [f \in DOMAIN u |->
     IF f \in DOMAIN body /\ f \in AllowedFields THEN body[f] ELSE u[f]]

\* updateUser, the whole handler.
UpdateUser(id, body) ==
  LET h == "updateUser"
      found == FindUserById(id)
  IN
  /\ calls < MaxCalls
  /\ calls' = calls + 1
  /\ UNCHANGED <<now, otpSide, wardSide, outsideDb>>
  /\ IF found = {} THEN
       \* prisma.user.update throws "record not found"
       /\ resp' = UnhandledError(h, <<id>>)
       /\ UNCHANGED users
     ELSE LET u == CHOOSE x \in found : TRUE IN
       /\ users' = (users \ {u}) \cup {ApplyUpdates(u, body)}
       /\ resp' = Response(h, <<id>>, 200,
            Envelope(TRUE, "User updated successfully", "data"))

\* ---- verifyAccount

\* A users.find that forgets the expiry.
IsVerificationTokenOf_NoExpiry(u, resetPasswordToken, t) ==
  /\ u.password.kind = "token"
  /\ u.password.resetPasswordToken = resetPasswordToken
  /\ u.password.isVerificationToken = TRUE

\* The test of verifyAccount's users.find: the password column parses as
\* JSON and holds this digest, an expiry later than now and the flag.
IsVerificationTokenOf(u, resetPasswordToken, t) ==
  /\ u.password.kind = "token"
  /\ u.password.resetPasswordToken = resetPasswordToken
  /\ u.password.resetPasswordExpire > t
  /\ u.password.isVerificationToken = TRUE

\* verifyAccount, the whole handler.
VerifyAccount(token, password) ==
  LET h == "verifyAccount"
      args == <<token>>
      resetPasswordToken == sha256(token)
      found == {u \in users : IsVerificationTokenOf(u, resetPasswordToken, now)}
  IN
  /\ calls < MaxCalls
  /\ calls' = calls + 1
  /\ UNCHANGED <<now, otpSide, wardSide, statusVars, kochiVars, routeVars,
                 clientVars, deleteReq>>
  /\ IF found = {} THEN
       /\ resp' = Response(h, args, 400,
            Envelope(FALSE, "Invalid or expired verification token", Null))
       /\ UNCHANGED <<users, verifiedTokens>>
     ELSE LET user == CHOOSE u \in found : \A v \in found : u.id <= v.id IN
       /\ users' = (users \ {user}) \cup
            {[user EXCEPT !.password = HashedPassword(password),
                          !.isActive = TRUE]}
       /\ verifiedTokens' = verifiedTokens \cup {token}
       /\ resp' = Response(h, args, 200,
            Envelope(TRUE, "Account verified and password set successfully",
                     "data"))

\* Time passes half a day at a time.
HalfDayMinutes == 720
MaxVerifyTime == 1440

TickHalfDay ==
  /\ now + HalfDayMinutes <= MaxVerifyTime
  /\ now' = now + HalfDayMinutes
  /\ UNCHANGED <<users, otpSessions, resp, calls, verifyReq, wardSide, outsideDb>>

\* A count of the administrators that forgets isActive.
adminCount_CountsInactive ==
  Cardinality({a \in users : a.role = "ADMINISTRATOR"})

\* prisma.user.count({where: {role: "ADMINISTRATOR", isActive: true}})
adminCount ==
  Cardinality({a \in users : a.role = "ADMINISTRATOR" /\ a.isActive})

\* deleteUser, the whole handler.
DeleteUser(id) ==
  LET h == "deleteUser"
      found == FindUserById(id)
  IN
  /\ calls < MaxCalls
  /\ calls' = calls + 1
  /\ UNCHANGED <<now, otpSide, wardSide, outsideDb>>
  /\ IF found = {} THEN
       /\ resp' = Response(h, <<id>>, 404, Envelope(FALSE, "User not found", Null))
       /\ UNCHANGED users
     ELSE LET u == CHOOSE x \in found : TRUE IN
       IF u.role = "ADMINISTRATOR" /\ adminCount <= 1 THEN
         /\ resp' = Response(h, <<id>>, 400,
              Envelope(FALSE, "Cannot delete the last administrator", Null))
         /\ UNCHANGED users
       ELSE
         /\ users' = (users \ {u}) \cup {[u EXCEPT !.isActive = FALSE]}
         /\ resp' = Response(h, <<id>>, 200,
              Envelope(TRUE, "User deactivated successfully", Null))

\* ---- deleteUser step by step: the handler gives up control at every
\* await, so the steps of two requests interleave.
IdleDelete == [pc |-> "idle", id |-> 0, status |-> 0, message |-> ""]

outsideDelete ==
  <<now, calls, otpSide, wardSide, statusVars, kochiVars, routeVars, clientVars,
    verifiedTokens>>

DeleteFinish(r, status, ok, msg) ==
  /\ deleteReq' = [deleteReq EXCEPT ![r].pc = "done", ![r].status = status,
                                    ![r].message = msg]
  /\ resp' = Response("deleteUser", <<deleteReq[r].id>>, status,
                      Envelope(ok, msg, Null))

\* The request arrives.
DeleteReceive(r, id) ==
  /\ deleteReq[r].pc = "idle"
  /\ deleteReq' = [deleteReq EXCEPT ![r].pc = "findUser", ![r].id = id]
  /\ UNCHANGED <<users, resp, outsideDelete>>

\* await prisma.user.findUnique
DeleteFindUser(r) ==
  LET found == FindUserById(deleteReq[r].id) IN
  /\ deleteReq[r].pc = "findUser"
  /\ UNCHANGED <<users, outsideDelete>>
  /\ IF found = {} THEN DeleteFinish(r, 404, FALSE, "User not found")
     ELSE LET user == CHOOSE x \in found : TRUE IN
       /\ deleteReq' = [deleteReq EXCEPT ![r].pc =
            IF user.role = "ADMINISTRATOR" THEN "count" ELSE "update"]
       /\ UNCHANGED resp

\* await prisma.user.count
DeleteCount(r) ==
  /\ deleteReq[r].pc = "count"
  /\ UNCHANGED <<users, outsideDelete>>
  /\ IF adminCount <= 1
     THEN DeleteFinish(r, 400, FALSE, "Cannot delete the last administrator")
     ELSE deleteReq' = [deleteReq EXCEPT ![r].pc = "update"] /\ UNCHANGED resp

\* await prisma.user.update, then res.status(200).json(...)
DeleteUpdate(r) ==
  /\ deleteReq[r].pc = "update"
  /\ users' = {IF u.id = deleteReq[r].id THEN [u EXCEPT !.isActive = FALSE]
               ELSE u : u \in users}
  /\ DeleteFinish(r, 200, TRUE, "User deactivated successfully")
  /\ UNCHANGED outsideDelete

\* The body changePassword sends: {status, code, message}.
StatusBody(status, code, msg) ==
  [status |-> status, code |-> code, message |-> msg]

\* changePassword, the whole handler.
ChangePassword(uid, oldPassword, newPassword, confirmPassword) ==
  LET h == "changePassword"
      args == <<uid>>
      found == FindUserById(uid)
  IN
  /\ calls < MaxCalls
  /\ calls' = calls + 1
  /\ UNCHANGED <<now, otpSide, wardSide, outsideDb>>
  /\ IF Absent \in {oldPassword, newPassword, confirmPassword} THEN
       /\ resp' = Response(h, args, 400,
            StatusBody("error", 400, "All fields are required"))
       /\ UNCHANGED users
     ELSE IF newPassword # confirmPassword THEN
       /\ resp' = Response(h, args, 400,
            StatusBody("error", 400,
                       "New password and confirm password do not match"))
       /\ UNCHANGED users
     ELSE IF ~IsStrongPassword(newPassword) THEN
       /\ resp' = Response(h, args, 400,
            [status |-> "error", code |-> 400,
             message |-> "Password does not meet security requirements",
             errors |-> "errors"])
       /\ UNCHANGED users
     ELSE IF found = {} THEN
       /\ resp' = Response(h, args, 404, StatusBody("error", 404, "User not found"))
       /\ UNCHANGED users
     ELSE LET u == CHOOSE x \in found : TRUE IN
       IF u.password.kind = "token" THEN
         /\ resp' = Response(h, args, 400,
              StatusBody("error", 400,
                "Account not yet verified. Please complete account verification first."))
         /\ UNCHANGED users
       ELSE IF u.password.kind = "none" THEN
         \* bcrypt.compare(oldPassword, null) rejects
         /\ resp' = UnhandledError(h, args)
         /\ UNCHANGED users
       ELSE IF u.password.plain # oldPassword THEN
         /\ resp' = Response(h, args, 401,
              StatusBody("error", 401, "Incorrect current password"))
         /\ UNCHANGED users
       ELSE
         /\ users' = (users \ {u}) \cup
              {[u EXCEPT !.password = HashedPassword(newPassword)]}
         /\ resp' = Response(h, args, 200,
              StatusBody("success", 200, "Password updated successfully"))

(***************************************************************************)
(* Wards and sub-zones: createWard, deleteWard, createSubZone,             *)
(* updateSubZone, deleteSubZone                                            *)
(***************************************************************************)

\* The body the ward handlers send when they carry no data.
PlainBody(ok, msg) == [success |-> ok, message |-> msg]

\* Number of ward-management requests in a behaviour.
MaxWardCalls == 3

\* Ids of new rows (cuid): never an id that was used before.
FreshId == 100 + calls

WardNames == {"N1", "N3"}
SubZoneNames == {"Z1", "Z3"}

FindWardById(id) == {w \in wards : w.id = id}
FindSubZoneById(id) == {z \in subZones : z.id = id}

\* prisma.user.count({where: {wardId}})
UsersInWard(wardId) == Cardinality({u \in users : u.wardId = wardId})

\* A deleteWard that does not look at the complaints of the ward.
ComplaintsInWard_NotCounted(wardId) == 0

\* prisma.complaint.count({where: {wardId}})
ComplaintsInWard(wardId) ==
  Cardinality({c \in complaints : c.wardId = wardId})

\* prisma.complaint.count({where: {subZoneId}})
ComplaintsInSubZone(subZoneId) ==
  Cardinality({c \in complaints : c.subZoneId = subZoneId})

\* SubZone.ward is declared onDelete: Cascade: deleting a ward deletes its
\* sub-zones with it.
SubZonesAfterWardDelete(wardId) == {z \in subZones : z.wardId # wardId}

\* createWard, the whole handler.
CreateWard(name) ==
  LET h == "createWard" IN
  /\ calls < MaxWardCalls
  /\ calls' = calls + 1
  /\ UNCHANGED <<users, subZones, complaints, now, otpSide, outsideDb>>
  /\ IF \E w \in wards : w.name = name THEN
       /\ resp' = Response(h, <<name>>, 400,
            Envelope(FALSE, "Ward with this name already exists", Null))
       /\ UNCHANGED wards
     ELSE
       /\ wards' = wards \cup {[id |-> FreshId, name |-> name, isActive |-> TRUE]}
       /\ resp' = Response(h, <<name>>, 201,
            Envelope(TRUE, "Ward created successfully", "data"))

\* deleteWard, the whole handler.
DeleteWard(wardId) ==
  LET h == "deleteWard"
      args == <<wardId>>
  IN
  /\ calls < MaxWardCalls
  /\ calls' = calls + 1
  /\ UNCHANGED <<users, complaints, now, otpSide, outsideDb>>
  /\ IF FindWardById(wardId) = {} THEN
       /\ resp' = Response(h, args, 404, PlainBody(FALSE, "Ward not found"))
       /\ UNCHANGED <<wards, subZones>>
     ELSE IF UsersInWard(wardId) > 0 THEN
       /\ resp' = Response(h, args, 400,
            PlainBody(FALSE,
              "Cannot delete ward. There are users assigned to this ward."))
       /\ UNCHANGED <<wards, subZones>>
     ELSE IF ComplaintsInWard(wardId) > 0 THEN
       /\ resp' = Response(h, args, 400,
            PlainBody(FALSE,
              "Cannot delete ward. There are complaints assigned to this ward."))
       /\ UNCHANGED <<wards, subZones>>
     ELSE
       /\ wards' = wards \ FindWardById(wardId)
       /\ subZones' = SubZonesAfterWardDelete(wardId)
       /\ resp' = Response(h, args, 200, PlainBody(TRUE, "Ward deleted successfully"))

\* createSubZone, the whole handler (isActive defaults to true).
CreateSubZone(wardId, name) ==
  LET h == "createSubZone"
      args == <<wardId, name>>
  IN
  /\ calls < MaxWardCalls
  /\ calls' = calls + 1
  /\ UNCHANGED <<users, wards, complaints, now, otpSide, outsideDb>>
  /\ IF FindWardById(wardId) = {} THEN
       /\ resp' = Response(h, args, 404, PlainBody(FALSE, "Ward not found"))
       /\ UNCHANGED subZones
     ELSE IF \E z \in subZones : z.name = name /\ z.wardId = wardId THEN
       /\ resp' = Response(h, args, 400,
            PlainBody(FALSE, "Sub-zone name already exists in this ward"))
       /\ UNCHANGED subZones
     ELSE
       /\ subZones' = subZones \cup
            {[id |-> FreshId, name |-> name, wardId |-> wardId,
              isActive |-> TRUE]}
       /\ resp' = Response(h, args, 201,
            Envelope(TRUE, "Sub-zone created successfully", "data"))

\* updateSubZone, the whole handler.
UpdateSubZone(wardId, subZoneId, name, isActive) ==
  LET h == "updateSubZone"
      args == <<wardId, subZoneId>>
      found == FindSubZoneById(subZoneId)
  IN
  /\ calls < MaxWardCalls
  /\ calls' = calls + 1
  /\ UNCHANGED <<users, wards, complaints, now, otpSide, outsideDb>>
  /\ IF FindWardById(wardId) = {} THEN
       /\ resp' = Response(h, args, 404, PlainBody(FALSE, "Ward not found"))
       /\ UNCHANGED subZones
     ELSE IF found = {} THEN
       /\ resp' = Response(h, args, 404, PlainBody(FALSE, "Sub-zone not found"))
       /\ UNCHANGED subZones
     ELSE LET z == CHOOSE x \in found : TRUE IN
       IF z.wardId # wardId THEN
         /\ resp' = Response(h, args, 400,
              PlainBody(FALSE, "Sub-zone does not belong to this ward"))
         /\ UNCHANGED subZones
       ELSE
         /\ subZones' = (subZones \ {z}) \cup
              {[z EXCEPT !.name = name, !.isActive = isActive]}
         /\ resp' = Response(h, args, 200,
              Envelope(TRUE, "Sub-zone updated successfully", "data"))

\* deleteSubZone, the whole handler.
DeleteSubZone(wardId, subZoneId) ==
  LET h == "deleteSubZone"
      args == <<wardId, subZoneId>>
      found == FindSubZoneById(subZoneId)
  IN
  /\ calls < MaxWardCalls
  /\ calls' = calls + 1
  /\ UNCHANGED <<users, wards, complaints, now, otpSide, outsideDb>>
  /\ IF FindWardById(wardId) = {} THEN
       /\ resp' = Response(h, args, 404, PlainBody(FALSE, "Ward not found"))
       /\ UNCHANGED subZones
     ELSE IF found = {} THEN
       /\ resp' = Response(h, args, 404, PlainBody(FALSE, "Sub-zone not found"))
       /\ UNCHANGED subZones
     ELSE LET z == CHOOSE x \in found : TRUE IN
       IF z.wardId # wardId THEN
         /\ resp' = Response(h, args, 400,
              PlainBody(FALSE, "Sub-zone does not belong to this ward"))
         /\ UNCHANGED subZones
       ELSE IF ComplaintsInSubZone(subZoneId) > 0 THEN
         /\ resp' = Response(h, args, 400,
              PlainBody(FALSE,
                "Cannot delete sub-zone. There are complaints assigned to this sub-zone."))
         /\ UNCHANGED subZones
       ELSE
         /\ subZones' = subZones \ {z}
         /\ resp' = Response(h, args, 200,
              PlainBody(TRUE, "Sub-zone deleted successfully"))

(***************************************************************************)
(* Password-setup OTP: sendPasswordSetupOTP, verifyPasswordSetupOTP        *)
(***************************************************************************)

\* Two of the six-digit codes Math.random can produce, and a request body
\* without otpCode.
OtpCodes == {"111111", "222222"}
RequestCodes == OtpCodes \cup {Absent}

\* new Date(Date.now() + 10 * 60 * 1000)
OtpTtlMinutes == 10

\* Ids a request may carry in req.user.id; 9 has no User row.
RequestUserIds == {1, 2, 9}

\* The where-clause of the "invalidate existing sessions" updateMany.
IsOpenPasswordSetup(s, email) ==
  s.email = email /\ s.purpose = "PASSWORD_SETUP" /\ ~s.isVerified

\* The where-clause of the clean-up updateMany after a failed email.
IsPasswordSetupWithCode(s, email, code) ==
  s.email = email /\ s.purpose = "PASSWORD_SETUP" /\ s.otpCode = code

\* A send that leaves the earlier sessions as they are.
ExpireOpenSessions_Nothing(sessions, email, t) == sessions

\* updateMany({where: open sessions of email, data: {expiresAt: new Date()}})
ExpireOpenSessions(sessions, email, t) ==
  {IF IsOpenPasswordSetup(s, email) THEN [s EXCEPT !.expiresAt = t] ELSE s
     : s \in sessions}

\* updateMany({where: sessions of email with otpCode, data: {expiresAt}})
ExpireSessionsWithCode(sessions, email, code, t) ==
  {IF IsPasswordSetupWithCode(s, email, code)
     THEN [s EXCEPT !.expiresAt = t] ELSE s
     : s \in sessions}

NewSession(id, u, code, t) ==
  [id |-> id, userId |-> u.id, email |-> u.email, otpCode |-> code,
   purpose |-> "PASSWORD_SETUP", isVerified |-> FALSE,
   expiresAt |-> t + OtpTtlMinutes, verifiedAt |-> Null]

\* A findFirst that forgets isVerified: false.
IsValidOtpSession_IgnoresVerified(s, email, code, t) ==
  /\ s.email = email
  /\ s.otpCode = code
  /\ s.purpose = "PASSWORD_SETUP"
  /\ s.expiresAt > t

\* The where-clause of verifyPasswordSetupOTP's findFirst.
IsValidOtpSession(s, email, code, t) ==
  /\ s.email = email
  /\ s.otpCode = code
  /\ s.purpose = "PASSWORD_SETUP"
  /\ s.isVerified = FALSE
  /\ s.expiresAt > t

FindValidOtpSessions(email, code, t) ==
  {s \in otpSessions : IsValidOtpSession(s, email, code, t)}

\* prisma.oTPSession.update({where: {id}, data: {isVerified, verifiedAt}}).
MarkVerified(sessions, id, t) ==
  {IF s.id = id THEN [s EXCEPT !.isVerified = TRUE, !.verifiedAt = t] ELSE s
     : s \in sessions}

\* sendPasswordSetupOTP, the whole handler. code is the value Math.random
\* yields, emailOk what sendOTPEmail returns.
SendPasswordSetupOTP(uid, code, emailOk) ==
  LET found == FindUserById(uid)
      args == <<uid, code>>
      h == "sendPasswordSetupOTP"
  IN
  /\ calls < MaxCalls
  /\ calls' = calls + 1
  /\ UNCHANGED <<users, now, verifyReq, wardSide, outsideDb>>
  /\ IF found = {} THEN
       /\ resp' = Response(h, args, 404, Envelope(FALSE, "User not found", Null))
       /\ UNCHANGED otpSessions
     ELSE LET u == CHOOSE x \in found : TRUE IN
       IF ~u.isActive THEN
         /\ resp' = Response(h, args, 400,
              Envelope(FALSE, "Account is deactivated. Please contact support.", Null))
         /\ UNCHANGED otpSessions
       ELSE IF HasValidPassword(u.password) THEN
         /\ resp' = Response(h, args, 400,
              Envelope(FALSE, "Password already set. Use change password instead.", Null))
         /\ UNCHANGED otpSessions
       ELSE
         LET invalidated ==
               ExpireOpenSessions(otpSessions, u.email, now)
             created ==
               invalidated \cup
                 {NewSession(Cardinality(otpSessions) + 1, u, code, now)}
         IN IF emailOk THEN
              /\ otpSessions' = created
              /\ resp' = Response(h, args, 200,
                   Envelope(TRUE, "OTP sent to your email for password setup", "data"))
            ELSE
              /\ otpSessions' =
                   ExpireSessionsWithCode(created, u.email, code, now)
              /\ resp' = Response(h, args, 500,
                   Envelope(FALSE, "Failed to send OTP. Please try again.", Null))

\* verifyPasswordSetupOTP, the whole handler run without interruption.
VerifyPasswordSetupOTP(uid, code) ==
  LET found == FindUserById(uid)
      args == <<uid, code>>
      h == "verifyPasswordSetupOTP"
  IN
  /\ calls < MaxCalls
  /\ calls' = calls + 1
  /\ UNCHANGED <<users, now, verifyReq, wardSide, outsideDb>>
  /\ IF code = Absent THEN
       /\ resp' = Response(h, args, 400, Envelope(FALSE, "OTP code is required", Null))
       /\ UNCHANGED otpSessions
     ELSE IF found = {} THEN
       /\ resp' = Response(h, args, 404, Envelope(FALSE, "User not found", Null))
       /\ UNCHANGED otpSessions
     ELSE LET u == CHOOSE x \in found : TRUE IN
       IF ~u.isActive THEN
         /\ resp' = Response(h, args, 400,
              Envelope(FALSE, "Account is deactivated. Please contact support.", Null))
         /\ UNCHANGED otpSessions
       ELSE IF FindValidOtpSessions(u.email, code, now) = {} THEN
         /\ resp' = Response(h, args, 400, Envelope(FALSE, "Invalid or expired OTP", Null))
         /\ UNCHANGED otpSessions
       ELSE
         \E s \in FindValidOtpSessions(u.email, code, now) :
           /\ otpSessions' = MarkVerified(otpSessions, s.id, now)
           /\ resp' = Response(h, args, 200,
                Envelope(TRUE, "OTP verified successfully", "data"))

\* ---- setPasswordAfterOTP

\* new Date(Date.now() - 30 * 60 * 1000)
VerifiedWindowMinutes == 30

\* A findFirst that forgets the 30 minutes.
IsVerifiedSession_NoTimeLimit(s, email, t) ==
  /\ s.email = email
  /\ s.purpose = "PASSWORD_SETUP"
  /\ s.isVerified = TRUE

\* The where-clause of setPasswordAfterOTP's findFirst.
IsVerifiedSession(s, email, t) ==
  /\ s.email = email
  /\ s.purpose = "PASSWORD_SETUP"
  /\ s.isVerified = TRUE
  /\ s.verifiedAt > t - VerifiedWindowMinutes

\* updateMany({where: {email, purpose: "PASSWORD_SETUP"}, data: {expiresAt}})
ExpirePasswordSetupSessions(sessions, email, t) ==
  {IF s.email = email /\ s.purpose = "PASSWORD_SETUP"
     THEN [s EXCEPT !.expiresAt = t] ELSE s
     : s \in sessions}

\* setPasswordAfterOTP, the whole handler. (The confirmation email it sends
\* at the end changes nothing when it fails.)
SetPasswordAfterOTP(uid, password, confirmPassword) ==
  LET found == FindUserById(uid)
      args == <<uid>>
      h == "setPasswordAfterOTP"
      Refuse(status, msg, data) ==
        /\ resp' = Response(h, args, status, Envelope(FALSE, msg, data))
        /\ UNCHANGED <<users, otpSessions>>
  IN
  /\ calls < MaxCalls
  /\ calls' = calls + 1
  /\ UNCHANGED <<now, verifyReq, wardSide, outsideDb>>
  /\ IF password = Absent \/ confirmPassword = Absent THEN
       Refuse(400, "Password and confirm password are required", Null)
     ELSE IF password # confirmPassword THEN
       Refuse(400, "Passwords do not match", Null)
     ELSE IF ~IsStrongPassword(password) THEN
       Refuse(400, "Password does not meet security requirements", "data")
     ELSE IF found = {} THEN
       Refuse(404, "User not found", Null)
     ELSE LET u == CHOOSE x \in found : TRUE IN
       IF ~u.isActive THEN
         Refuse(400, "Account is deactivated. Please contact support.", Null)
       ELSE IF HasValidPassword(u.password) THEN
         Refuse(400, "Password already set. Use change password instead.", Null)
       ELSE IF \A s \in otpSessions : ~IsVerifiedSession(s, u.email, now) THEN
         Refuse(400,
           "OTP verification required or expired. Please request a new OTP.",
           Null)
       ELSE
         /\ users' = (users \ {u}) \cup
                       {[u EXCEPT !.password = HashedPassword(password)]}
         /\ otpSessions' = ExpirePasswordSetupSessions(otpSessions, u.email, now)
         /\ resp' = Response(h, args, 200,
              Envelope(TRUE, "Password set successfully", "data"))

\* Time passes a quarter of an hour at a time.
QuarterMinutes == 15
MaxSetupTime == 45

TickQuarter ==
  /\ now + QuarterMinutes <= MaxSetupTime
  /\ now' = now + QuarterMinutes
  /\ UNCHANGED <<users, otpSessions, resp, calls, verifyReq, wardSide, outsideDb>>

\* ---- verifyPasswordSetupOTP step by step: the handler gives up control at
\* every await, so the steps of two requests interleave.
NumRequests == 2
Requests == 1..NumRequests

IdleRequest ==
  [pc |-> "idle", uid |-> 0, code |-> Absent, email |-> Null,
   sessionId |-> 0, status |-> 0, message |-> ""]

Finish(r, status, ok, msg) ==
  /\ verifyReq' = [verifyReq EXCEPT ![r].pc = "done", ![r].status = status,
                                    ![r].message = msg]
  /\ resp' = Response("verifyPasswordSetupOTP",
                      <<verifyReq[r].uid, verifyReq[r].code>>, status,
                      Envelope(ok, msg, IF ok THEN "data" ELSE Null))

\* The request arrives; a body without otpCode is answered at once.
VerifyReceive(r, uid, code) ==
  /\ verifyReq[r].pc = "idle"
  /\ UNCHANGED <<users, otpSessions, now, calls, wardSide, outsideDb>>
  /\ IF code = Absent THEN
       /\ verifyReq' = [verifyReq EXCEPT ![r].pc = "done", ![r].uid = uid,
                          ![r].code = code, ![r].status = 400,
                          ![r].message = "OTP code is required"]
       /\ resp' = Response("verifyPasswordSetupOTP", <<uid, code>>, 400,
                           Envelope(FALSE, "OTP code is required", Null))
     ELSE
       /\ verifyReq' = [verifyReq EXCEPT ![r].pc = "findUser", ![r].uid = uid,
                          ![r].code = code]
       /\ UNCHANGED resp

\* await prisma.user.findUnique
VerifyFindUser(r) ==
  LET found == FindUserById(verifyReq[r].uid) IN
  /\ verifyReq[r].pc = "findUser"
  /\ UNCHANGED <<users, otpSessions, now, calls, wardSide, outsideDb>>
  /\ IF found = {} THEN Finish(r, 404, FALSE, "User not found")
     ELSE LET u == CHOOSE x \in found : TRUE IN
       IF ~u.isActive
       THEN Finish(r, 400, FALSE, "Account is deactivated. Please contact support.")
       ELSE /\ verifyReq' = [verifyReq EXCEPT ![r].pc = "findSession",
                                              ![r].email = u.email]
            /\ UNCHANGED resp

\* await prisma.oTPSession.findFirst
VerifyFindSession(r) ==
  LET valid == FindValidOtpSessions(verifyReq[r].email, verifyReq[r].code, now)
  IN
  /\ verifyReq[r].pc = "findSession"
  /\ UNCHANGED <<users, otpSessions, now, calls, wardSide, outsideDb>>
  /\ IF valid = {} THEN Finish(r, 400, FALSE, "Invalid or expired OTP")
     ELSE \E s \in valid :
            /\ verifyReq' = [verifyReq EXCEPT ![r].pc = "update",
                                              ![r].sessionId = s.id]
            /\ UNCHANGED resp

\* await prisma.oTPSession.update, then res.status(200).json(...)
VerifyUpdate(r) ==
  /\ verifyReq[r].pc = "update"
  /\ otpSessions' = MarkVerified(otpSessions, verifyReq[r].sessionId, now)
  /\ Finish(r, 200, TRUE, "OTP verified successfully")
  /\ UNCHANGED <<users, now, calls, wardSide, outsideDb>>

(***************************************************************************)
(* Kochi seed: complaint generation and calculateSLAStatus                 *)
(***************************************************************************)

HoursPerDay == 24

\* Number of complaints the model's seed generates.
TotalComplaints == 2

\* Rows of the complaint table after which the seed is not started again.
MaxTableRows == 6

\* How far the clock may run, in hours after the first reading.
MaxClock == 24

\* COMPLAINT_TYPES: the slaHours of each type.
SlaHours(type) ==
  CASE type = "Water Supply" -> 24
    [] type = "Electricity" -> 12
    [] type = "Road Repair" -> 72
    [] type = "Waste Management" -> 48
    [] type = "Street Lighting" -> 48
    [] type = "Drainage" -> 24
    [] type = "Air Pollution" -> 48
    [] type = "Noise Pollution" -> 72

\* randomElement(COMPLAINT_TYPES): the draws the model follows.
ComplaintTypeDraws == {"Water Supply", "Electricity", "Waste Management"}

\* Object.keys(STATUS_WEIGHTS): what weightedRandom can return.
SeedStatuses ==
  {"CLOSED", "RESOLVED", "IN_PROGRESS", "ASSIGNED", "REGISTERED", "REOPENED"}

\* randomInt(0, 180): the draws the model follows.
DaysAgoDraws == {0, 1}

\* An optional date (Date | null) is the set of its values: NoDate or {t}.
NoDate == {}
SomeDate(t) == {t}

addHours(date, hours) == date + hours
addDays(date, days) == date + days * HoursPerDay

\* A calculateSLAStatus that calls a complaint WARNING only when less than
\* a day remains.
calculateSLAStatus_StrictWarning(submittedOn, deadline, resolvedOn, currentStatus) ==
  IF currentStatus = "RESOLVED" \/ currentStatus = "CLOSED" THEN "COMPLETED"
  ELSE LET hoursRemaining == deadline - clock IN
       IF hoursRemaining < 0 THEN "OVERDUE"
       ELSE IF hoursRemaining < HoursPerDay THEN "WARNING"
       ELSE "ON_TIME"

\* A calculateSLAStatus that judges a finished complaint by its resolution
\* time.
calculateSLAStatus_ByResolution(submittedOn, deadline, resolvedOn, currentStatus) ==
  IF currentStatus = "RESOLVED" \/ currentStatus = "CLOSED" THEN
    IF \E t \in resolvedOn : t > deadline THEN "OVERDUE" ELSE "COMPLETED"
  ELSE LET hoursRemaining == deadline - clock IN
       IF hoursRemaining < 0 THEN "OVERDUE"
       ELSE IF hoursRemaining <= HoursPerDay THEN "WARNING"
       ELSE "ON_TIME"

\* calculateSLAStatus: new Date() reads the clock; daysRemaining < 0 and
\* daysRemaining <= 1 are compared in hours.
calculateSLAStatus(submittedOn, deadline, resolvedOn, currentStatus) ==
  IF currentStatus = "RESOLVED" \/ currentStatus = "CLOSED" THEN "COMPLETED"
  ELSE LET hoursRemaining == deadline - clock IN
       IF hoursRemaining < 0 THEN "OVERDUE"
       ELSE IF hoursRemaining <= HoursPerDay THEN "WARNING"
       ELSE "ON_TIME"

KochiIdle ==
  /\ clock = 0
  /\ kochiPc = "idle"
  /\ kochiNow = Null
  /\ kochiComplaints = << >>
  /\ complaintTable = {}
  /\ complaintCounter = 1

\* Time passes: while the seed waits for the database, and between its steps.
ClockTick ==
  /\ clock + HoursPerDay <= MaxClock
  /\ clock' = clock + HoursPerDay
  /\ UNCHANGED <<kochiPc, kochiNow, kochiComplaints, complaintTable,
       complaintCounter, outsideKochi>>

\* A complaintId is 'KMC' followed by decimal digits; it is modelled as the
\* sequence of those digits, the prefix being the same in every id the seed
\* reads (startsWith: 'KMC') or writes.
\* String(complaintCounter): the decimal digits of a positive integer.
RECURSIVE String(_)
String(n) == IF n < 10 THEN <<n>> ELSE Append(String(n \div 10), n % 10)

\* String.prototype.padStart with a pad string of one character.
RECURSIVE padStart(_, _, _)
padStart(s, targetLength, padString) ==
  IF Len(s) >= targetLength THEN s
  ELSE padStart(<<padString>> \o s, targetLength, padString)

\* The width the seed pads the counter to: padStart(5, '0').
IdWidth == 5

\* `KMC${String(complaintCounter).padStart(5, '0')}`
complaintIdOf(counter) == padStart(String(counter), IdWidth, 0)

\* parseInt(lastId.replace('KMC', '')) of an id made of digits.
RECURSIVE parseInt(_)
parseInt(digits) ==
  IF digits = << >> THEN 0
  ELSE parseInt(SubSeq(digits, 1, Len(digits) - 1)) * 10 + digits[Len(digits)]

\* The order of orderBy: { complaintId: ... }: complaintId is a string column,
\* so ids are compared character by character, a proper prefix first.
RECURSIVE StringBefore(_, _)
StringBefore(a, b) ==
  IF a = << >> THEN b # << >>
  ELSE IF b = << >> THEN FALSE
  ELSE IF Head(a) # Head(b) THEN Head(a) < Head(b)
  ELSE StringBefore(Tail(a), Tail(b))

\* prisma.complaint.findMany({ where: { complaintId: { startsWith: 'KMC' } },
\* orderBy: { complaintId: 'desc' }, take: 1 }): no row or the one row whose
\* id is last in string order.
existingComplaints(table) ==
  {id \in table : \A other \in table : other = id \/ StringBefore(other, id)}

\* let complaintCounter = 1, or one above the number of the id found.
FirstCounter(table) ==
  IF existingComplaints(table) = {} THEN 1
  ELSE LET lastId == CHOOSE id \in existingComplaints(table) : TRUE
           lastNumber == parseInt(lastId)
       IN lastNumber + 1

\* main, step 4, up to the loop: the look-up of the last complaintId, the
\* start of the counter and const now = new Date().
KochiStart ==
  /\ kochiPc = "idle"
  /\ complaintCounter' = FirstCounter(complaintTable)
  /\ kochiNow' = clock
  /\ kochiPc' = "loop"
  /\ UNCHANGED <<clock, kochiComplaints, complaintTable, outsideKochi>>

\* resolvedOn of a RESOLVED, CLOSED or REOPENED complaint before the
\* REOPENED reset: after the deadline when the SLA is breached (the draw of
\* randomInt(1, slaHours) followed is 1), else after half of the SLA hours
\* (the draw of percentageOfSLA followed is 0.5).
DrawResolvedOn(submittedOn, deadline, slaHours, willBreachSLA) ==
  IF willBreachSLA THEN addHours(deadline, 1)
  ELSE addHours(submittedOn, slaHours \div 2)

\* prisma.complaint.create of a row whose complaintId the table already
\* holds: the table either rejects the row, and main rethrows the error, or
\* stores a second row under the same id, as its schema decides. A new id is
\* always stored.
CreateOutcomes(complaintId, table) ==
  IF complaintId \in table THEN BOOLEAN ELSE {FALSE}

\* One iteration of the loop: the complaintId taken from the counter, the
\* random draws, the status-dependent dates, calculateSLAStatus and
\* prisma.complaint.create. slaAt records when calculateSLAStatus read the
\* clock.
KochiGenerate(daysAgo, type, status, willBreachSLA) ==
  LET submittedOn == addDays(kochiNow, 0 - daysAgo)
      slaHours == SlaHours(type)
      deadline == addHours(submittedOn, slaHours)
      finished == status \in {"RESOLVED", "CLOSED", "REOPENED"}
      drawn == DrawResolvedOn(submittedOn, deadline, slaHours, willBreachSLA)
      resolvedOn ==
        IF finished /\ status # "REOPENED" THEN SomeDate(drawn) ELSE NoDate
      closedOn ==
        IF status = "CLOSED" THEN SomeDate(addDays(drawn, 1)) ELSE NoDate
      slaStatus ==
        calculateSLAStatus(submittedOn, deadline,
          IF resolvedOn # NoDate THEN resolvedOn ELSE closedOn, status)
      complaintId == complaintIdOf(complaintCounter)
  IN
  /\ kochiPc = "loop"
  /\ Len(kochiComplaints) < TotalComplaints
  /\ finished \/ ~willBreachSLA
  /\ complaintCounter' = complaintCounter + 1
  /\ \E rejected \in CreateOutcomes(complaintId, complaintTable) :
       IF rejected
       THEN /\ kochiPc' = "failed"
            /\ UNCHANGED <<kochiComplaints, complaintTable>>
       ELSE /\ kochiComplaints' = Append(kochiComplaints,
                 [complaintId |-> complaintId,
                  type |-> type, status |-> status, slaStatus |-> slaStatus,
                  submittedOn |-> submittedOn, resolvedOn |-> resolvedOn,
                  closedOn |-> closedOn, deadline |-> deadline,
                  slaAt |-> clock])
            /\ complaintTable' = complaintTable \cup {complaintId}
            /\ UNCHANGED kochiPc
  /\ UNCHANGED <<clock, kochiNow, outsideKochi>>

\* The loop ends after TOTAL_COMPLAINTS iterations.
KochiFinish ==
  /\ kochiPc = "loop"
  /\ Len(kochiComplaints) = TotalComplaints
  /\ kochiPc' = "done"
  /\ UNCHANGED <<clock, kochiNow, kochiComplaints, complaintTable,
       complaintCounter, outsideKochi>>

\* The seed script is started again after a run that ended, with or without
\* an error: a new process, whose complaints array is empty, on the table the
\* earlier runs have filled.
KochiRunAgain ==
  /\ kochiPc \in {"done", "failed"}
  /\ Cardinality(complaintTable) + TotalComplaints <= MaxTableRows
  /\ kochiPc' = "idle"
  /\ kochiNow' = Null
  /\ kochiComplaints' = << >>
  /\ UNCHANGED <<clock, complaintTable, complaintCounter, outsideKochi>>

(***************************************************************************)
(* Guest router: rate limiter, upload, sanitizeInputs, validator chains    *)
(***************************************************************************)

\* ---- strings, character by character
Char(s, i) == SubSeq(s, i, i)
Digits == {"0", "1", "2", "3", "4", "5", "6", "7", "8", "9"}
UpperCase == "ABCDEFGHIJKLMNOPQRSTUVWXYZ"
LowerCase == "abcdefghijklmnopqrstuvwxyz"

\* String.prototype.toLowerCase, letter by letter.
RECURSIVE toLowerCase(_)
toLowerCase(s) ==
  IF s = "" THEN ""
  ELSE LET c == Char(s, 1)
           up == {i \in 1..Len(UpperCase) : Char(UpperCase, i) = c}
       IN (IF up = {} THEN c ELSE Char(LowerCase, CHOOSE i \in up : TRUE))
            \o toLowerCase(SubSeq(s, 2, Len(s)))

\* String.prototype.trim / express-validator's trim(), for blanks.
RECURSIVE trim(_)
trim(s) ==
  IF s = "" THEN ""
  ELSE IF Char(s, 1) = " " THEN trim(SubSeq(s, 2, Len(s)))
  ELSE IF Char(s, Len(s)) = " " THEN trim(SubSeq(s, 1, Len(s) - 1))
  ELSE s

\* DOMPurify.sanitize with no allowed tag or attribute and KEEP_CONTENT:
\* the tags go, the text between them stays.
RECURSIVE StripTags(_, _)
StripTags(s, inTag) ==
  IF s = "" THEN ""
  ELSE LET c == Char(s, 1)
           rest == SubSeq(s, 2, Len(s))
       IN IF inTag THEN StripTags(rest, c # ">")
          ELSE IF c = "<" THEN StripTags(rest, TRUE)
          ELSE c \o StripTags(rest, FALSE)

\* sanitizeInputs' sanitizeValue for a string or a missing value.
sanitizeValue(value) ==
  IF value = Absent THEN Absent ELSE trim(StripTags(value, FALSE))

\* ---- the request bodies
Fields ==
  {"fullName", "email", "phoneNumber", "otpCode", "type", "description",
   "priority", "wardId", "area", "purpose"}

\* A body every validator chain accepts.
ValidBody ==
  [f \in Fields |->
     CASE f = "fullName" -> "Ann Lee"
       [] f = "email" -> "ann@x.io"
       [] f = "phoneNumber" -> "+91 98765-43210"
       [] f = "otpCode" -> "123456"
       [] f = "type" -> "ELECTRICITY"
       [] f = "description" -> "Street light broken"
       [] f = "priority" -> Absent
       [] f = "wardId" -> "w1"
       [] f = "area" -> "Fort Kochi"
       [] f = "purpose" -> Absent]

\* Other values a client may send for a field.
OtherValues(f) ==
  CASE f = "fullName" -> {Absent, "A", " <b>Ann Lee</b> ", "<i>A</i>"}
    [] f = "email" -> {Absent, "ann-at-x", "Ann@X.io"}
    [] f = "phoneNumber" -> {Absent, "12345", "(0484) 2345678"}
    [] f = "otpCode" -> {Absent, "12ab56", "12345"}
    [] f = "type" -> {Absent, "NOISE"}
    [] f = "description" -> {Absent, "short", "<script></script>dark"}
    [] f = "priority" -> {"HIGH", "URGENT"}
    [] f = "wardId" -> {Absent, " "}
    [] f = "area" -> {Absent, "X"}
    [] f = "purpose" -> {"complaint_submission", "login"}

\* The bodies the model sends: the valid one with one field changed.
RequestBodies ==
  {ValidBody} \cup
  {[ValidBody EXCEPT ![f] = v] : <<f, v>> \in
     UNION {{<<g, w>> : w \in OtherValues(g)} : g \in Fields}}

\* express-validator reads a missing field as the empty string.
Str(value) == IF value = Absent THEN "" ELSE value

\* ---- the validators of express-validator, on the model's strings
isLength(s, min, max) == Len(s) >= min /\ Len(s) <= max
isNumeric(s) == s # "" /\ \A i \in 1..Len(s) : Char(s, i) \in Digits
notEmpty(s) == trim(s) # ""
isEmail(s) ==
  LET ats == {i \in 1..Len(s) : Char(s, i) = "@"} IN
  /\ Cardinality(ats) = 1
  /\ \A i \in 1..Len(s) : Char(s, i) # " "
  /\ \E a \in ats : a > 1 /\ \E d \in (a + 2)..(Len(s) - 1) : Char(s, d) = "."
\* /^\+?[\d\s-()]{10,}$/
matchesPhone(s) ==
  LET rest == IF s # "" /\ Char(s, 1) = "+" THEN SubSeq(s, 2, Len(s)) ELSE s IN
  /\ Len(rest) >= 10
  /\ \A i \in 1..Len(rest) : Char(rest, i) \in Digits \cup {" ", "-", "(", ")"}

ComplaintTypeEnum ==
  {"WATER_SUPPLY", "ELECTRICITY", "ROAD_REPAIR", "GARBAGE_COLLECTION",
   "STREET_LIGHTING", "SEWERAGE", "PUBLIC_HEALTH", "TRAFFIC", "OTHERS"}
PriorityEnum == {"LOW", "MEDIUM", "HIGH", "CRITICAL"}

\* One entry of validationResult(req).array().
FieldError(field, msg, value) ==
  <<[path |-> field, msg |-> msg, value |-> value]>>
NoError == << >>

\* The field chains the guest validators are built from. A failing validator
\* without a withMessage of its own reports "Invalid value".
fullNameChain(body) ==
  IF isLength(trim(Str(body.fullName)), 2, 100) THEN NoError
  ELSE FieldError("fullName", "Full name must be between 2 and 100 characters",
         IF body.fullName = Absent THEN "" ELSE trim(body.fullName))
emailChain(body) ==
  IF isEmail(Str(body.email)) THEN NoError
  ELSE FieldError("email", "Please provide a valid email", body.email)
phoneNumberChain(body) ==
  IF matchesPhone(Str(body.phoneNumber)) THEN NoError
  ELSE FieldError("phoneNumber", "Please provide a valid phone number",
         body.phoneNumber)
otpCodeChain(body) ==
  (IF isLength(Str(body.otpCode), 6, 6) THEN NoError
   ELSE FieldError("otpCode", "Invalid value", body.otpCode))
  \o (IF isNumeric(Str(body.otpCode)) THEN NoError
      ELSE FieldError("otpCode", "OTP must be a 6-digit number", body.otpCode))
typeChain(body) ==
  IF Str(body.type) \in ComplaintTypeEnum THEN NoError
  ELSE FieldError("type", "Invalid complaint type", body.type)
descriptionChain(body) ==
  IF isLength(trim(Str(body.description)), 10, 2000) THEN NoError
  ELSE FieldError("description",
         "Description must be between 10 and 2000 characters",
         IF body.description = Absent THEN "" ELSE trim(body.description))
priorityChain(body) ==
  IF body.priority = Absent \/ body.priority \in PriorityEnum THEN NoError
  ELSE FieldError("priority", "Invalid priority", body.priority)
wardIdChain(body) ==
  IF notEmpty(Str(body.wardId)) THEN NoError
  ELSE FieldError("wardId", "Ward is required", body.wardId)
areaChain(body) ==
  IF isLength(trim(Str(body.area)), 2, 200) THEN NoError
  ELSE FieldError("area", "Area must be between 2 and 200 characters",
         IF body.area = Absent THEN "" ELSE trim(body.area))
purposeChain(body) ==
  IF body.purpose = Absent \/ body.purpose \in {"complaint_submission"}
  THEN NoError
  ELSE FieldError("purpose", "Invalid purpose", body.purpose)

\* The validator chains of the guest routes, up to handleValidationErrors.
\* (address and coordinates, optional in validateGuestComplaint, are never
\* sent.)
ChainErrors(validator, body) ==
  CASE validator = "validateGuestComplaintInitiation" ->
         fullNameChain(body) \o emailChain(body) \o phoneNumberChain(body)
    [] validator = "validateGuestRegistration" ->
         emailChain(body) \o otpCodeChain(body) \o fullNameChain(body)
           \o typeChain(body) \o descriptionChain(body) \o wardIdChain(body)
    [] validator = "validateGuestComplaint" ->
         fullNameChain(body) \o emailChain(body) \o phoneNumberChain(body)
           \o typeChain(body) \o descriptionChain(body) \o priorityChain(body)
           \o wardIdChain(body) \o areaChain(body)
    [] validator = "validateOtpRequest" ->
         emailChain(body) \o purposeChain(body)

\* The sanitizers of a chain change req.body: trim() and normalizeEmail().
ChainTrims(validator) ==
  CASE validator = "validateGuestComplaintInitiation" -> {"fullName"}
    [] validator = "validateGuestRegistration" -> {"fullName", "description"}
    [] validator = "validateGuestComplaint" -> {"fullName", "description", "area"}
    [] validator = "validateOtpRequest" -> {}
ChainSanitized(validator, body) ==
  [f \in Fields |->
     IF f \in ChainTrims(validator) THEN trim(Str(body[f]))
     ELSE IF f = "email" /\ body[f] # Absent THEN toLowerCase(body[f])
     ELSE body[f]]

ValidatorNames ==
  {"validateGuestComplaintInitiation", "validateGuestRegistration",
   "validateGuestComplaint", "validateOtpRequest"}

\* A handleValidationErrors that answers 400 and goes on to next() all the
\* same.
handleValidationErrors_NoReturn(errors) ==
  [next |-> TRUE,
   status |-> IF errors # << >> THEN 400 ELSE 0,
   body |-> IF errors # << >> THEN
              [success |-> FALSE, message |-> "Validation failed",
               data |-> [errors |->
                 [i \in 1..Len(errors) |->
                    [field |-> errors[i].path, message |-> errors[i].msg,
                     value |-> errors[i].value]]]]
            ELSE [success |-> TRUE, message |-> "", data |-> Null]]

\* handleValidationErrors: what it sends, and whether it calls next().
handleValidationErrors(errors) ==
  IF errors # << >> THEN
    [next |-> FALSE, status |-> 400,
     body |-> [success |-> FALSE, message |-> "Validation failed",
               data |-> [errors |->
                 [i \in 1..Len(errors) |->
                    [field |-> errors[i].path, message |-> errors[i].msg,
                     value |-> errors[i].value]]]]]
  ELSE
    [next |-> TRUE, status |-> 0,
     body |-> [success |-> TRUE, message |-> "", data |-> Null]]

\* ---- upload: multer with the guest fileFilter
\* path.extname: from the last dot on; empty without a dot or when the only
\* dot starts the name.
extname(name) ==
  LET dots == {i \in 2..Len(name) : Char(name, i) = "."} IN
  IF dots = {} THEN ""
  ELSE SubSeq(name, Max(dots), Len(name))

\* String.prototype.substring(1).
substring1(s) == SubSeq(s, 2, Len(s))

\* RegExp.prototype.test for an alternation of literals with no anchor.
AllowedTypes == {"jpeg", "jpg", "png", "gif", "pdf", "doc", "docx", "txt"}
allowedTypesTest(s) ==
  \E t \in AllowedTypes :
    \E i \in 1..(Len(s) - Len(t) + 1) : SubSeq(s, i, i + Len(t) - 1) = t

\* fileFilter: cb(null, true) or cb(new Error("Invalid file type...")).
fileFilter(originalname) ==
  allowedTypesTest(substring1(toLowerCase(extname(originalname))))

\* The attachment of a request: none, or one file by its original name.
NoFile == Absent
RequestFiles == {NoFile, "a.PNG", "run.exe", "report.docm"}

\* The Error fileFilter hands to its callback for a refused file.
InvalidFileType ==
  "Invalid file type. Only images (JPEG, PNG, GIF) and documents (PDF, DOC, DOCX, TXT) are allowed"

\* The requests the model sends: a body without a file, or the valid body
\* with a file.
GuestRequests == (RequestBodies \X {NoFile}) \cup ({ValidBody} \X RequestFiles)

\* ---- the routes
BodyRoutes ==
  {"/complaint", "/complaint-with-attachments", "/verify-otp", "/resend-otp",
   "/service-request", "/verify-service-otp"}

\* router.post(path, ...middleware, controller): the middleware in order.
Pipeline(route) ==
  CASE route = "/complaint" ->
         <<"upload", "sanitizeInputs", "validateGuestComplaintInitiation">>
    [] route = "/complaint-with-attachments" ->
         <<"upload", "sanitizeInputs", "validateGuestComplaint">>
    [] route = "/verify-otp" ->
         <<"guestOtpLimiter", "upload", "sanitizeInputs",
           "validateGuestRegistration">>
    [] route = "/resend-otp" ->
         <<"guestOtpLimiter", "sanitizeInputs", "validateOtpRequest">>
    [] route = "/service-request" -> << >>
    [] route = "/verify-service-otp" -> <<"guestOtpLimiter">>

Controller(route) ==
  CASE route = "/complaint" -> "submitGuestComplaint"
    [] route = "/complaint-with-attachments" ->
         "submitGuestComplaintWithAttachments"
    [] route = "/verify-otp" -> "verifyOTPAndRegister"
    [] route = "/resend-otp" -> "resendOTP"
    [] route = "/service-request" -> "submitGuestServiceRequest"
    [] route = "/verify-service-otp" -> "verifyServiceRequestOTP"

\* guestOtpLimiter's max: 3 requests a window in production, else 50.
NodeEnvs == {"production", "development"}

\* A limiter whose max ignores the environment.
LimiterMax_Always50(env) == 50

LimiterMax(env) == IF env = "production" THEN 3 ELSE 50

\* How far the model follows the limiter's counter.
MaxOtpHits == 4

RateLimitBody ==
  [success |-> FALSE,
   message |-> "Too many OTP requests. Please wait 5 minutes before requesting again.",
   errorCode |-> "OTP_RATE_LIMIT_EXCEEDED"]

\* multer passes the fileFilter's error to next(err): the error-handling
\* middleware answers.
UploadErrorBody ==
  [success |-> FALSE, message |-> "Invalid file type", data |-> Null]

\* A middleware ends the request by answering it.
Answer(ctx, status, body) ==
  [ctx EXCEPT !.ended = TRUE, !.status = status, !.resBody = body]

\* One middleware of a pipeline, run on the request as it stands.
RunMiddleware(mw, ctx0) ==
  LET ctx == [ctx0 EXCEPT !.ran = Append(@, mw)] IN
  CASE mw = "guestOtpLimiter" ->
         IF ctx.hits + 1 > LimiterMax(ctx.env)
         THEN Answer([ctx EXCEPT !.hits = @ + 1], 429, RateLimitBody)
         ELSE [ctx EXCEPT !.hits = @ + 1]
    [] mw = "upload" ->
         IF ctx.file = NoFile THEN ctx
         ELSE IF fileFilter(ctx.file)
         THEN [ctx EXCEPT !.stored = {ctx.file}]
         ELSE Answer([ctx EXCEPT !.uploadError = InvalidFileType], 500,
                UploadErrorBody)
    [] mw = "sanitizeInputs" ->
         [ctx EXCEPT !.body = [f \in Fields |-> sanitizeValue(ctx.body[f])]]
    [] mw \in ValidatorNames ->
         LET result == handleValidationErrors(ChainErrors(mw, ctx.body))
             after == [ctx EXCEPT !.body = ChainSanitized(mw, ctx.body)]
         IN IF result.next
            THEN [after EXCEPT !.status = result.status,
                               !.resBody = result.body]
            ELSE Answer(after, result.status, result.body)

\* Express runs the middleware in order until one answers.
RECURSIVE RunPipeline(_, _)
RunPipeline(stages, ctx) ==
  IF stages = << >> \/ ctx.ended THEN ctx
  ELSE RunPipeline(Tail(stages), RunMiddleware(Head(stages), ctx))

NoGuestRequest == [route |-> "none", body |-> ValidBody, file |-> NoFile]
NoGuestResponse ==
  [ran |-> << >>, status |-> 0,
   body |-> [success |-> TRUE, message |-> "", data |-> Null],
   controller |-> Null, controllerBody |-> ValidBody,
   stored |-> {}, uploadError |-> Null]

\* The routes guestOtpLimiter is mounted on.
LimitedRoutes ==
  {route \in BodyRoutes :
     \E i \in 1..Len(Pipeline(route)) : Pipeline(route)[i] = "guestOtpLimiter"}
NoneAdmitted == [route \in LimitedRoutes |-> 0]

RoutesIdle ==
  /\ guestReq = NoGuestRequest
  /\ guestPending = FALSE
  /\ guestResp = NoGuestResponse
  /\ otpHits = 0
  /\ nodeEnv = "production"
  /\ admitted = NoneAdmitted

\* The client sends a POST to a guest route.
GuestSend(route, body, file) ==
  /\ ~guestPending
  /\ otpHits < MaxOtpHits
  /\ guestReq' = [route |-> route, body |-> body, file |-> file]
  /\ guestPending' = TRUE
  /\ guestResp' = NoGuestResponse
  /\ UNCHANGED <<otpHits, nodeEnv, admitted, outsideRoutes>>

\* The router handles the POST: the route's middleware in order, then its
\* controller unless a middleware has answered.
GuestPost ==
  LET route == guestReq.route
      out == RunPipeline(Pipeline(route),
               [body |-> guestReq.body, file |-> guestReq.file,
                hits |-> otpHits, env |-> nodeEnv, ran |-> << >>,
                ended |-> FALSE, status |-> 0,
                resBody |-> NoGuestResponse.body,
                stored |-> {}, uploadError |-> Null])
  IN
  /\ guestPending
  /\ guestPending' = FALSE
  /\ guestResp' =
       [ran |-> out.ran, status |-> out.status, body |-> out.resBody,
        controller |-> IF out.ended THEN Null ELSE Controller(route),
        controllerBody |-> out.body,
        stored |-> out.stored, uploadError |-> out.uploadError]
  /\ otpHits' = out.hits
  /\ admitted' =
       IF /\ route \in LimitedRoutes
          /\ ~(out.ended /\ out.ran[Len(out.ran)] = "guestOtpLimiter")
       THEN [admitted EXCEPT ![route] = @ + 1]
       ELSE admitted
  /\ UNCHANGED <<guestReq, nodeEnv, outsideRoutes>>

\* The limiter's 5-minute window ends: its counter starts again.
LimiterWindowEnds ==
  /\ otpHits > 0
  /\ otpHits' = 0
  /\ admitted' = NoneAdmitted
  /\ UNCHANGED <<guestReq, guestPending, guestResp, nodeEnv, outsideRoutes>>

(***************************************************************************)
(* Web client: the getWards query and the locations part of the data slice *)
(***************************************************************************)
\* A property a JavaScript object may lack: no value, or the one value.
Undefined == {}
Defined(value) == {value}

ClientWardIds == {"w1", "w2"}
WardIdLists == {<<"w1">>, <<"w1", "w2">>}
SubZoneLists == {<< >>, <<"sz1">>, <<"sz2">>}

\* data.data.wards as the server sends it: with include=subzones every
\* ward carries its array of active sub-zones, without it none does.
DeepResponses ==
  UNION {{[i \in 1..Len(ids) |-> [id |-> ids[i], subZones |-> Defined(sz[i])]] :
            sz \in [1..Len(ids) -> SubZoneLists]} : ids \in WardIdLists}
ShallowResponses ==
  {[i \in 1..Len(ids) |-> [id |-> ids[i], subZones |-> Undefined]] :
     ids \in WardIdLists}
\* The answer of a request that did not succeed.
FailedResponse == [success |-> FALSE, wards |-> << >>]

\* An answer with success false that the server sends with status 200.
RefusedResponse ==
  [success |-> FALSE,
   wards |-> <<[id |-> "w1", subZones |-> Defined(<<"sz1">>)]>>]

\* The {data} or {error} object a base query returns.
NoResult == [data |-> Undefined, error |-> Undefined]

\* fetchBaseQuery: a 2xx answer is a data result, any other an error
\* result with the status and the parsed body.
fetchBaseQuery(status, body) ==
  IF status >= 200 /\ status <= 299
  THEN [data |-> Defined(body), error |-> Undefined]
  ELSE [data |-> Undefined,
        error |-> Defined([status |-> status, data |-> body])]

\* A base query without the normalisation of success: false.
baseQueryWithReauth_NoNormalize(status, body) == fetchBaseQuery(status, body)

\* baseQueryWithReauth: a data result whose body has success === false
\* becomes an error result with the answer's status and the body as data.
\* (The logout after a 401 and the toasts are left out.)
baseQueryWithReauth(status, body) ==
  LET result == fetchBaseQuery(status, body) IN
  IF \E data \in result.data : data.success = FALSE
  THEN [data |-> Undefined,
        error |-> Defined([status |-> status, data |-> body])]
  ELSE result

\* How many getWards queries the model keeps in flight.
MaxInFlight == 2

\* state.data.locations before any dispatch.
InitialLocations ==
  [wards |-> Undefined, subZones |-> [id \in ClientWardIds |-> Undefined]]

\* useState's initial values in QuickComplaintForm (guest, not logged in).
EmptyForm ==
  [fullName |-> "", mobile |-> "", problemType |-> "", ward |-> "",
   subZoneId |-> "", area |-> "", description |-> ""]

ClientIdle ==
  /\ locations = InitialLocations
  /\ wardQueries = {}
  /\ lastDeep = Undefined
  /\ queryResult = NoResult
  /\ formData = EmptyForm
  /\ captcha = ""
  /\ isSubmittingLocal = FALSE
  /\ formPc = "idle"
  /\ formEvent = "none"
  /\ submitClosure = [isSubmittingLocal |-> FALSE]
  /\ renderedDisabled = FALSE
  /\ needsRender = FALSE
  /\ inFlight = 0

\* ward.subZones && Array.isArray(ward.subZones) && ward.subZones.length > 0
hasSubZones(payload) ==
  \E i \in 1..Len(payload) : \E array \in payload[i].subZones : Len(array) > 0

\* The map the reducer's forEach builds from an empty object.
SubZonesOf(payload) ==
  [id \in ClientWardIds |->
     LET at == {i \in 1..Len(payload) :
                  payload[i].id = id /\ payload[i].subZones # Undefined}
     IN IF at = {} THEN Undefined
        ELSE payload[CHOOSE i \in at : \A j \in at : j <= i].subZones]

\* A reducer that rebuilds the sub-zone map from every payload.
setWardsWithSubZones_AlwaysRebuilds(state, payload) ==
  [wards |-> Defined(payload), subZones |-> SubZonesOf(payload)]

\* The reducer: the wards list is replaced; the sub-zone map is rebuilt
\* only when some ward of the payload has a non-empty subZones array.
\* (The timestamps it writes are left out.)
setWardsWithSubZones(state, payload) ==
  [wards |-> Defined(payload),
   subZones |-> IF hasSubZones(payload) THEN SubZonesOf(payload)
                ELSE state.subZones]

\* subZonesData?.data || []
selectSubZonesByWardId(wardId) ==
  IF locations.subZones[wardId] = Undefined THEN << >>
  ELSE CHOOSE data \in locations.subZones[wardId] : TRUE

\* subZones: ward.subZones || []
wardsWithSubZones(wardList) ==
  [i \in 1..Len(wardList) |->
     [wardList[i] EXCEPT !.subZones = IF @ = Undefined THEN Defined(<< >>) ELSE @]]

\* The client starts a getWards query; the server's answer is on its way.
GetWards(includeSubzones, status, data) ==
  /\ Cardinality(wardQueries) < MaxInFlight
  /\ LET query == [includeSubzones |-> includeSubzones, status |-> status,
                   data |-> data] IN
     /\ query \notin wardQueries
     /\ wardQueries' = wardQueries \cup {query}
  /\ UNCHANGED <<locations, lastDeep, queryResult, formVars, outsideClient>>

\* onQueryStarted resumes after queryFulfilled: on a successful answer it
\* dispatches setWardsWithSubZones, otherwise it leaves the store alone.
OnQueryStarted(query) ==
  /\ query \in wardQueries
  /\ wardQueries' = wardQueries \ {query}
  /\ queryResult' = baseQueryWithReauth(query.status, query.data)
  /\ IF \E data \in queryResult'.data : data.success
     THEN LET payload == wardsWithSubZones(query.data.wards) IN
          /\ locations' = setWardsWithSubZones(locations, payload)
          /\ lastDeep' = IF query.includeSubzones THEN Defined(payload)
                         ELSE lastDeep
     ELSE UNCHANGED <<locations, lastDeep>>
  /\ UNCHANGED <<formVars, outsideClient>>

(***************************************************************************)
(* Web client: QuickComplaintForm.handleSubmit                             *)
(***************************************************************************)
\* What the user can put into a field of the form.
FormFields == DOMAIN EmptyForm
FieldValues(field) ==
  IF field = "ward" THEN {"", "w1"}
  ELSE IF field = "subZoneId" THEN {"", "sz1", "sz9"}
  ELSE {"", "x"}
CaptchaTexts == {"", "ab12"}

\* The render that follows a state change: the button shows the state of
\* now (disabled={isSendingOtp || isSubmittingLocal} in guest mode).
DisabledNow == inFlight > 0 \/ isSubmittingLocal

\* handleInputChange: the field is set; a new ward clears the sub-zone.
\* The render at the end of the event makes a new handleSubmit callback,
\* formData being one of its dependencies.
HandleInputChange(field, value) ==
  /\ formData' = IF field = "ward"
                 THEN [formData EXCEPT !.ward = value, !.subZoneId = ""]
                 ELSE [formData EXCEPT ![field] = value]
  /\ formData' # formData
  /\ submitClosure' = [isSubmittingLocal |-> isSubmittingLocal]
  /\ renderedDisabled' = DisabledNow
  /\ needsRender' = FALSE
  /\ UNCHANGED <<captcha, isSubmittingLocal, formPc, formEvent, inFlight,
                 storeVars, outsideClient>>

\* The CAPTCHA input's onChange; captcha is a dependency of handleSubmit.
SetCaptcha(value) ==
  /\ captcha' = value
  /\ captcha' # captcha
  /\ submitClosure' = [isSubmittingLocal |-> isSubmittingLocal]
  /\ renderedDisabled' = DisabledNow
  /\ needsRender' = FALSE
  /\ UNCHANGED <<formData, isSubmittingLocal, formPc, formEvent, inFlight,
                 storeVars, outsideClient>>

\* The component re-renders after handleSubmit changed its state. None of
\* handleSubmit's dependencies has changed (isSubmittingLocal and
\* guestIsSubmitting are not in the list), so useCallback keeps the
\* callback it has.
Render ==
  /\ needsRender
  /\ needsRender' = FALSE
  /\ renderedDisabled' = DisabledNow
  /\ UNCHANGED <<formData, captcha, isSubmittingLocal, formPc, formEvent,
                 submitClosure, inFlight, storeVars, outsideClient>>

\* !formData.fullName || !formData.mobile || ...
MissingRequiredField ==
  \E field \in {"fullName", "mobile", "problemType", "ward", "area",
                "description"} : formData[field] = ""

\* subZonesForWard.find((sz) => sz.id === formData.subZoneId)
validSubZone ==
  LET subZonesForWard == selectSubZonesByWardId(formData.ward) IN
  \E i \in 1..Len(subZonesForWard) : subZonesForWard[i] = formData.subZoneId

\* How many unanswered requests the model follows.
MaxSubmits == 2

\* (guestIsSubmitting) || isSubmittingLocal, as the callback sees them:
\* the values of the render that made the callback. (Nothing in the form's
\* guest flow sets state.guest.isSubmitting.)
SubmitGuard == submitClosure.isSubmittingLocal

\* handleSubmit, of a guest, from the submit event to its first await or
\* its return. The event needs the button the page shows to be enabled.
HandleSubmit ==
  /\ ~renderedDisabled
  /\ inFlight < MaxSubmits
  /\ UNCHANGED <<formData, captcha, submitClosure, renderedDisabled, storeVars,
                 outsideClient>>
  /\ IF SubmitGuard THEN
       /\ formEvent' = "ignored"
       /\ UNCHANGED <<isSubmittingLocal, formPc, needsRender, inFlight>>
     ELSE
       /\ isSubmittingLocal' = TRUE
       /\ needsRender' = TRUE
       /\ IF captcha = "" THEN
            formEvent' = "Invalid CAPTCHA" /\ UNCHANGED <<formPc, inFlight>>
          ELSE IF MissingRequiredField THEN
            formEvent' = "Required Field" /\ UNCHANGED <<formPc, inFlight>>
          ELSE IF formData.subZoneId # "" /\ ~validSubZone THEN
            formEvent' = "Invalid Sub-Zone" /\ UNCHANGED <<formPc, inFlight>>
          ELSE
            /\ formEvent' = "submitting"
            /\ formPc' = "awaiting"
            /\ inFlight' = inFlight + 1

\* What the awaited guest OTP initiation comes back with.
ApiOutcomes == {"Verification Code Sent", "Submission Failed"}

\* handleSubmit after the await: the toast and the finally block.
ApiSettles(outcome) ==
  /\ inFlight > 0
  /\ inFlight' = inFlight - 1
  /\ formPc' = IF inFlight' > 0 THEN "awaiting" ELSE "idle"
  /\ formEvent' = outcome
  /\ isSubmittingLocal' = FALSE
  /\ needsRender' = TRUE
  /\ UNCHANGED <<formData, captcha, submitClosure, renderedDisabled, storeVars,
                 outsideClient>>

(***************************************************************************)
(* Specifications                                                          *)
(***************************************************************************)

\* The controller part at rest, for the specifications of the other parts.
DbIdle ==
  /\ users = {}
  /\ wards = {}
  /\ subZones = {}
  /\ complaints = {}
  /\ otpSessions = {}
  /\ now = 0
  /\ resp = NoResponse
  /\ calls = 0
  /\ verifyReq = << >>

StatusNext ==
  \/ SeedCreateComplaint
  \/ SeedLogRegistered
  \/ SeedLogInProgress
  \/ SeedLogResolved
  \/ SeedError
  \/ ValidateComplaintUpdate

\* The database the status-log seed runs against holds the ward and the
\* sub-zone its complaints point to.
StatusInit ==
  /\ StatusInitState
  /\ KochiIdle
  /\ RoutesIdle
  /\ ClientIdle
  /\ verifiedTokens = {}
  /\ deleteReq = << >>
  /\ users = {}
  /\ wards = {[id |-> SeedWardId, name |-> "N1", isActive |-> TRUE]}
  /\ subZones = {[id |-> SeedSubZoneId, name |-> "Z1", wardId |-> SeedWardId,
                  isActive |-> TRUE]}
  /\ complaints = {}
  /\ otpSessions = {}
  /\ now = 0
  /\ resp = NoResponse
  /\ calls = 0
  /\ verifyReq = << >>

SpecStatus == StatusInit /\ [][StatusNext]_vars

\* Users of the OTP flows: an active account that has no password yet and
\* a deactivated one.
OtpUser(id, email, active) ==
  [id |-> id, email |-> email, role |-> "CITIZEN", isActive |-> active,
   wardId |-> Null, password |-> NoPassword]

OtpUsers ==
  {OtpUser(1, "a@x", TRUE), OtpUser(2, "b@x", FALSE)}

\* Sessions of the table that are not the active user's password-setup
\* sessions: one the deactivated user requested, and one of the guest
\* complaint flow for the active user's email.
ForeignSession(id, uid, email, purpose) ==
  [id |-> id, userId |-> uid, email |-> email, otpCode |-> "111111",
   purpose |-> purpose, isVerified |-> FALSE, expiresAt |-> OtpTtlMinutes,
   verifiedAt |-> Null]

ForeignSessions ==
  {ForeignSession(1, 2, "b@x", "PASSWORD_SETUP"),
   ForeignSession(2, Null, "a@x", "COMPLAINT_SUBMISSION")}

OtpInit ==
  /\ StatusIdle
  /\ KochiIdle
  /\ RoutesIdle
  /\ ClientIdle
  /\ verifiedTokens = {}
  /\ deleteReq = << >>
  /\ users = OtpUsers
  /\ wards = {}
  /\ subZones = {}
  /\ complaints = {}
  /\ otpSessions = ForeignSessions
  /\ now = 0
  /\ resp = NoResponse
  /\ calls = 0
  /\ verifyReq = << >>

OtpNext ==
  \/ \E uid \in RequestUserIds, code \in OtpCodes, emailOk \in BOOLEAN :
       SendPasswordSetupOTP(uid, code, emailOk)
  \/ \E uid \in RequestUserIds, code \in RequestCodes :
       VerifyPasswordSetupOTP(uid, code)
  \/ Tick

SpecOtp == OtpInit /\ [][OtpNext]_vars

\* Password setup from request to stored password: the active user and the
\* deactivated one, and a guest-complaint session of the active user's
\* email that has been verified.
VerifiedGuestSession ==
  [ForeignSession(3, Null, "a@x", "COMPLAINT_SUBMISSION")
     EXCEPT !.isVerified = TRUE, !.verifiedAt = 0]

SetupInit ==
  /\ StatusIdle
  /\ KochiIdle
  /\ RoutesIdle
  /\ ClientIdle
  /\ verifiedTokens = {}
  /\ deleteReq = << >>
  /\ users = OtpUsers
  /\ wards = {}
  /\ subZones = {}
  /\ complaints = {}
  /\ otpSessions = ForeignSessions \cup {VerifiedGuestSession}
  /\ now = 0
  /\ resp = NoResponse
  /\ calls = 0
  /\ verifyReq = << >>

SetupNext ==
  \/ \E uid \in RequestUserIds : SendPasswordSetupOTP(uid, "222222", TRUE)
  \/ \E uid \in RequestUserIds, code \in OtpCodes :
       VerifyPasswordSetupOTP(uid, code)
  \/ \E uid \in RequestUserIds, password \in RequestPasswords,
        confirmPassword \in {"Secret1!", Absent} :
       SetPasswordAfterOTP(uid, password, confirmPassword)
  \/ TickQuarter

SpecSetPassword == SetupInit /\ [][SetupNext]_vars


\* Two requests in flight after sendPasswordSetupOTP has issued one code to
\* the active user.
RaceInit ==
  /\ StatusIdle
  /\ KochiIdle
  /\ RoutesIdle
  /\ ClientIdle
  /\ verifiedTokens = {}
  /\ deleteReq = << >>
  /\ users = OtpUsers
  /\ wards = {}
  /\ subZones = {}
  /\ complaints = {}
  /\ \E code \in OtpCodes :
       otpSessions = ForeignSessions \cup
         {NewSession(3, CHOOSE u \in OtpUsers : u.id = 1, code, 0)}
  /\ now = 0
  /\ resp = NoResponse
  /\ calls = 0
  /\ verifyReq = [r \in Requests |-> IdleRequest]

RaceNext ==
  \/ \E r \in Requests, uid \in RequestUserIds, code \in RequestCodes :
       VerifyReceive(r, uid, code)
  \/ \E r \in Requests : VerifyFindUser(r)
  \/ \E r \in Requests : VerifyFindSession(r)
  \/ \E r \in Requests : VerifyUpdate(r)
  \/ Tick

SpecOtpRace == RaceInit /\ [][RaceNext]_vars

\* User management starts from the seeded administrator.
UsersInit ==
  /\ StatusIdle
  /\ KochiIdle
  /\ RoutesIdle
  /\ ClientIdle
  /\ verifiedTokens = {}
  /\ deleteReq = << >>
  /\ users = {[id |-> 1, email |-> "admin@x", role |-> "ADMINISTRATOR",
               isActive |-> TRUE, wardId |-> Null,
               password |-> HashedPassword("Secret1!")]}
  /\ wards = {}
  /\ subZones = {}
  /\ complaints = {}
  /\ otpSessions = {}
  /\ now = 0
  /\ resp = NoResponse
  /\ calls = 0
  /\ verifyReq = << >>

\* Ids a request may name: the rows that exist and one that does not.
KnownUserIds == {u.id : u \in users} \cup {9}

UsersNext ==
  \/ \E fullNameOk \in BOOLEAN, email \in RequestEmails, role \in RequestRoles,
        password \in {Absent, "Secret1!"}, emailSent \in BOOLEAN :
       CreateUser(fullNameOk, email, role, password, emailSent)
  \/ \E id \in KnownUserIds, body \in UpdateBodies : UpdateUser(id, body)
  \/ \E id \in KnownUserIds : DeleteUser(id)
  \/ \E id \in KnownUserIds, old \in RequestPasswords, new \in RequestPasswords :
       ChangePassword(id, old, new, new)
  \/ \E id \in KnownUserIds :
       ChangePassword(id, "Secret1!", "Secret1!", "weak")

SpecUsers == UsersInit /\ [][UsersNext]_vars

\* Two deleteUser requests at the same time, with two active
\* administrators and a citizen in the table.
RaceUsers ==
  {[id |-> 1, email |-> "admin@x", role |-> "ADMINISTRATOR", isActive |-> TRUE,
    wardId |-> Null, password |-> HashedPassword("Secret1!")],
   [id |-> 2, email |-> "root@x", role |-> "ADMINISTRATOR", isActive |-> TRUE,
    wardId |-> Null, password |-> HashedPassword("Secret1!")],
   [id |-> 3, email |-> "a@x", role |-> "CITIZEN", isActive |-> TRUE,
    wardId |-> Null, password |-> HashedPassword("Secret1!")]}

DeleteRaceInit ==
  /\ StatusIdle
  /\ KochiIdle
  /\ RoutesIdle
  /\ ClientIdle
  /\ verifiedTokens = {}
  /\ deleteReq = [r \in Requests |-> IdleDelete]
  /\ users = RaceUsers
  /\ wards = {}
  /\ subZones = {}
  /\ complaints = {}
  /\ otpSessions = {}
  /\ now = 0
  /\ resp = NoResponse
  /\ calls = 0
  /\ verifyReq = << >>

DeleteRaceNext ==
  \/ \E r \in Requests, id \in {1, 2, 3, 9} : DeleteReceive(r, id)
  \/ \E r \in Requests : DeleteFindUser(r)
  \/ \E r \in Requests : DeleteCount(r)
  \/ \E r \in Requests : DeleteUpdate(r)

SpecDeleteRace == DeleteRaceInit /\ [][DeleteRaceNext]_vars


\* Account verification: an administrator creates officers, who follow the
\* link of their email, at once or later; a request may also carry a token
\* nobody was sent, or the digest that is stored instead of the token.
VerifyTokens == {2, 3, sha256(2)}
VerifyEmails == {"a@x", "b@x"}

VerifyInit ==
  /\ StatusIdle
  /\ KochiIdle
  /\ RoutesIdle
  /\ ClientIdle
  /\ verifiedTokens = {}
  /\ deleteReq = << >>
  /\ users = {[id |-> 1, email |-> "admin@x", role |-> "ADMINISTRATOR",
               isActive |-> TRUE, wardId |-> Null,
               password |-> HashedPassword("Secret1!")]}
  /\ wards = {}
  /\ subZones = {}
  /\ complaints = {}
  /\ otpSessions = {}
  /\ now = 0
  /\ resp = NoResponse
  /\ calls = 0
  /\ verifyReq = << >>

VerifyNext ==
  \/ \E email \in VerifyEmails, role \in VerificationRoles,
        emailSent \in BOOLEAN :
       CreateUser(TRUE, email, role, Absent, emailSent)
  \/ \E token \in VerifyTokens : VerifyAccount(token, "Secret1!")
  \/ TickHalfDay

SpecVerify == VerifyInit /\ [][VerifyNext]_vars


\* Ward management starts from two wards with one sub-zone each; ward 1 may
\* have a complaint in its sub-zone (complaints are filed in a sub-zone of
\* their own ward) and ward 2 may have an officer.
WardsInit ==
  /\ StatusIdle
  /\ KochiIdle
  /\ RoutesIdle
  /\ ClientIdle
  /\ verifiedTokens = {}
  /\ deleteReq = << >>
  /\ wards = {[id |-> 1, name |-> "N1", isActive |-> TRUE],
              [id |-> 2, name |-> "N2", isActive |-> TRUE]}
  /\ subZones = {[id |-> 1, name |-> "Z1", wardId |-> 1, isActive |-> TRUE],
                 [id |-> 2, name |-> "Z2", wardId |-> 2, isActive |-> TRUE]}
  /\ complaints \in SUBSET
       {[id |-> 1, status |-> "REGISTERED", wardId |-> 1, subZoneId |-> 1]}
  /\ users \in SUBSET
       {[id |-> 1, email |-> "officer@x", role |-> "WARD_OFFICER",
         isActive |-> TRUE, wardId |-> 2,
         password |-> HashedPassword("Secret1!")]}
  /\ otpSessions = {}
  /\ now = 0
  /\ resp = NoResponse
  /\ calls = 0
  /\ verifyReq = << >>

\* Ids a path may name: the rows that exist and one that does not.
KnownWardIds == {w.id : w \in wards} \cup {9}
KnownSubZoneIds == {z.id : z \in subZones} \cup {9}

WardsNext ==
  \/ \E name \in WardNames : CreateWard(name)
  \/ \E wardId \in KnownWardIds : DeleteWard(wardId)
  \/ \E wardId \in KnownWardIds, name \in SubZoneNames :
       CreateSubZone(wardId, name)
  \/ \E wardId \in KnownWardIds, subZoneId \in KnownSubZoneIds,
        name \in SubZoneNames, isActive \in BOOLEAN :
       UpdateSubZone(wardId, subZoneId, name, isActive)
  \/ \E wardId \in KnownWardIds, subZoneId \in KnownSubZoneIds :
       DeleteSubZone(wardId, subZoneId)

SpecWards == WardsInit /\ [][WardsNext]_vars

\* The Kochi seed runs against a database the model leaves out of account:
\* the rows it creates are kept in kochiComplaints.
SLAInit ==
  /\ StatusIdle
  /\ DbIdle
  /\ clock = 0
  /\ kochiPc = "idle"
  /\ kochiNow = Null
  /\ kochiComplaints = << >>
  /\ complaintTable = {}
  /\ complaintCounter = 1
  /\ RoutesIdle
  /\ ClientIdle
  /\ verifiedTokens = {}
  /\ deleteReq = << >>

SLANext ==
  \/ ClockTick
  \/ KochiStart
  \/ \E daysAgo \in DaysAgoDraws, type \in ComplaintTypeDraws,
        status \in SeedStatuses, willBreachSLA \in BOOLEAN :
       KochiGenerate(daysAgo, type, status, willBreachSLA)
  \/ KochiFinish

SpecSLA == SLAInit /\ [][SLANext]_vars

\* Repeated runs of the seed on one complaint table. The table starts empty
\* or as earlier runs have filled it up to the last number of IdWidth digits;
\* of the filled table the rows with the two highest numbers are kept, the
\* ids of the other rows being below them in string order and in number.
LastPaddedNumber == 10 ^ IdWidth - 1

ExistingTables ==
  { {},
    {complaintIdOf(n) : n \in (LastPaddedNumber - 1)..LastPaddedNumber} }

SeedIdsInit ==
  /\ StatusIdle
  /\ DbIdle
  /\ clock = 0
  /\ kochiPc = "idle"
  /\ kochiNow = Null
  /\ kochiComplaints = << >>
  /\ complaintTable \in ExistingTables
  /\ complaintCounter = 1
  /\ RoutesIdle
  /\ ClientIdle
  /\ verifiedTokens = {}
  /\ deleteReq = << >>

SeedIdsNext ==
  \/ KochiStart
  \/ \E status \in SeedStatuses :
       KochiGenerate(0, CHOOSE type \in ComplaintTypeDraws : TRUE, status,
                     FALSE)
  \/ KochiFinish
  \/ KochiRunAgain

SpecSeedIds == SeedIdsInit /\ [][SeedIdsNext]_vars

\* The guest router serves one client; the server runs in production or
\* in development.
RoutesInit ==
  /\ StatusIdle
  /\ DbIdle
  /\ KochiIdle
  /\ ClientIdle
  /\ verifiedTokens = {}
  /\ deleteReq = << >>
  /\ guestReq = NoGuestRequest
  /\ guestPending = FALSE
  /\ guestResp = NoGuestResponse
  /\ otpHits = 0
  /\ nodeEnv \in NodeEnvs
  /\ admitted = NoneAdmitted

RoutesNext ==
  \/ \E route \in BodyRoutes, req \in GuestRequests :
       GuestSend(route, req[1], req[2])
  \/ GuestPost
  \/ LimiterWindowEnds

SpecRoutes == RoutesInit /\ [][RoutesNext]_vars

\* The web client: getWards queries with and without include=subzones,
\* answered in any order.
WardQueries ==
  {[includeSubzones |-> TRUE, status |-> 200,
    data |-> [success |-> TRUE, wards |-> w]] : w \in DeepResponses}
  \cup {[includeSubzones |-> FALSE, status |-> 200,
         data |-> [success |-> TRUE, wards |-> w]] : w \in ShallowResponses}
  \cup {[includeSubzones |-> TRUE, status |-> 500, data |-> FailedResponse],
        [includeSubzones |-> TRUE, status |-> 200, data |-> RefusedResponse]}

StoreInit ==
  /\ StatusIdle
  /\ DbIdle
  /\ KochiIdle
  /\ RoutesIdle
  /\ locations = InitialLocations
  /\ wardQueries = {}
  /\ lastDeep = Undefined
  /\ queryResult = NoResult
  /\ formData = EmptyForm
  /\ captcha = ""
  /\ isSubmittingLocal = FALSE
  /\ formPc = "idle"
  /\ formEvent = "none"
  /\ submitClosure = [isSubmittingLocal |-> FALSE]
  /\ renderedDisabled = FALSE
  /\ needsRender = FALSE
  /\ inFlight = 0
  /\ verifiedTokens = {}
  /\ deleteReq = << >>

StoreNext ==
  \/ \E query \in WardQueries :
       GetWards(query.includeSubzones, query.status, query.data)
  \/ \E query \in WardQueries : OnQueryStarted(query)

SpecStore == StoreInit /\ [][StoreNext]_vars

\* The complaint form of a guest, with the wards and sub-zones of one
\* include=subzones answer in the store.
FormWards == <<[id |-> "w1", subZones |-> Defined(<<"sz1">>)]>>

FormInit ==
  /\ StatusIdle
  /\ DbIdle
  /\ KochiIdle
  /\ RoutesIdle
  /\ locations = setWardsWithSubZones(InitialLocations, FormWards)
  /\ wardQueries = {}
  /\ lastDeep = Defined(FormWards)
  /\ queryResult = NoResult
  /\ formData = EmptyForm
  /\ captcha = ""
  /\ isSubmittingLocal = FALSE
  /\ formPc = "idle"
  /\ formEvent = "none"
  /\ submitClosure = [isSubmittingLocal |-> FALSE]
  /\ renderedDisabled = FALSE
  /\ needsRender = FALSE
  /\ inFlight = 0
  /\ verifiedTokens = {}
  /\ deleteReq = << >>

FormNext ==
  \/ \E field \in FormFields : \E value \in FieldValues(field) :
       HandleInputChange(field, value)
  \/ \E value \in CaptchaTexts : SetCaptcha(value)
  \/ HandleSubmit
  \/ Render
  \/ \E outcome \in ApiOutcomes : ApiSettles(outcome)

SpecForm == FormInit /\ [][FormNext]_vars



\* The lifecycle of the specification: REGISTERED -> ASSIGNED -> IN_PROGRESS
\* -> RESOLVED -> CLOSED, REOPENED leading back into the active pipeline.
PermittedTransitions ==
  { <<Null, "REGISTERED">>,
    <<"REGISTERED", "ASSIGNED">>,
    <<"ASSIGNED", "IN_PROGRESS">>,
    <<"IN_PROGRESS", "RESOLVED">>,
    <<"RESOLVED", "CLOSED">>,
    <<"RESOLVED", "REOPENED">>,
    <<"CLOSED", "REOPENED">>,
    <<"REOPENED", "ASSIGNED">>,
    <<"REOPENED", "IN_PROGRESS">> }

\* C1: every StatusLog row written, and every status value the update
\* validator lets through for a complaint, is a permitted transition of the
\* lifecycle (from the row's fromStatus, or the complaint's current status,
\* to the new status).
C1_OnlyPermittedTransitions ==
  /\ \A k \in 1..Len(statusLogs) :
       <<statusLogs[k].fromStatus, statusLogs[k].toStatus>>
         \in PermittedTransitions
  /\ (updateReq.outcome = "next" /\ updateReq.status # Absent) =>
       <<updateReq.fromStatus, updateReq.status>> \in PermittedTransitions

\* A step in which verifyPasswordSetupOTP handled one request.
VerifyStep == calls' = calls + 1 /\ resp'.handler = "verifyPasswordSetupOTP"

\* The sessions of the caller that carry the submitted code, before the call.
SessionsWithCode(uid, code) ==
  {s \in otpSessions :
     /\ \E u \in users : u.id = uid /\ u.email = s.email
     /\ s.otpCode = code
     /\ s.purpose = "PASSWORD_SETUP"}

\* C2 (as stated): a code is accepted at most once and only before it
\* expires. A call succeeds only if an unverified, unexpired password-setup
\* session of the caller carries the code; once a session with the code has
\* been verified, every later call with that code gets 400 "Invalid or
\* expired OTP"; a call after a session's expiresAt gets 400 and leaves the
\* session unverified.
C2_CodeAcceptedAtMostOnce ==
  [][VerifyStep =>
      LET uid == resp'.args[1]
          code == resp'.args[2]
          mine == SessionsWithCode(uid, code)
      IN /\ resp'.status = 200 =>
              \E s \in mine : ~s.isVerified /\ s.expiresAt > now
         /\ (\E s \in mine : s.isVerified) =>
              /\ resp'.status = 400
              /\ resp'.body.message = "Invalid or expired OTP"
         /\ \A s \in mine :
              (~s.isVerified /\ s.expiresAt < now) =>
                 /\ resp'.status = 400
                 /\ s \in otpSessions'
     ]_vars

\* C2 (amended): verifyPasswordSetupOTP succeeds only when a session with the
\* caller's email, the submitted code, purpose PASSWORD_SETUP, isVerified
\* false and expiresAt later than now exists, and then marks exactly that
\* session verified; every other call changes no session, and an active
\* caller without such a session gets 400 "Invalid or expired OTP". So each
\* session is accepted at most once and only before it expires.
C2_SessionAcceptedAtMostOnce ==
  [][VerifyStep =>
      LET uid == resp'.args[1]
          code == resp'.args[2]
          valid == {s \in SessionsWithCode(uid, code) :
                      ~s.isVerified /\ s.expiresAt > now}
      IN /\ resp'.status = 200 =>
              \E s \in valid :
                otpSessions' = (otpSessions \ {s}) \cup
                  {[s EXCEPT !.isVerified = TRUE, !.verifiedAt = now]}
         /\ resp'.status # 200 => otpSessions' = otpSessions
         /\ (/\ valid = {}
             /\ code # Absent
             /\ \E u \in users : u.id = uid /\ u.isActive) =>
              /\ resp'.status = 400
              /\ resp'.body.message = "Invalid or expired OTP"
     ]_vars

\* A second call with a code that was verified before has been refused.
C2_Witness ==
  /\ resp.handler = "verifyPasswordSetupOTP"
  /\ resp.status = 400
  /\ resp.body.message = "Invalid or expired OTP"
  /\ \E s \in otpSessions :
       /\ s.isVerified
       /\ s.otpCode = resp.args[2]
       /\ \E u \in users : u.id = resp.args[1] /\ u.email = s.email

\* C3: of two concurrent verifyPasswordSetupOTP requests of one user with the
\* same code, at most one is answered 200 "OTP verified successfully".
C3_AtMostOneConcurrentSuccess ==
  \A r1, r2 \in DOMAIN verifyReq :
    (/\ r1 # r2
     /\ verifyReq[r1].uid = verifyReq[r2].uid
     /\ verifyReq[r1].code = verifyReq[r2].code
     /\ verifyReq[r1].status = 200)
    => verifyReq[r2].status # 200

\* A step in which the named handler handled one request.
HandlerStep(h) == calls' = calls + 1 /\ resp'.handler = h

\* C4 as stated: no two users share an email; every createUser with an email
\* an existing user has answers 400 "User already exists with this email"
\* and creates no user; updateUser leaves every user's email as it is.
C4_DuplicateAlwaysNamed ==
  /\ [](\A u1, u2 \in users : u1.id # u2.id => u1.email # u2.email)
  /\ [][(HandlerStep("createUser")
          /\ \E u \in users : u.email = resp'.args[1]) =>
          /\ resp'.status = 400
          /\ users' = users
          /\ resp'.body.message = "User already exists with this email"
       ]_vars
  /\ [][HandlerStep("updateUser") =>
          /\ {u.id : u \in users'} = {u.id : u \in users}
          /\ \A u \in users, v \in users' : v.id = u.id => v.email = u.email
       ]_vars

\* C4: after any sequence of createUser and updateUser (and deleteUser,
\* changePassword) calls no two users share an email; createUser with an
\* email an existing user has answers 400 and creates no user, with the
\* message "User already exists with this email" when the body passes the
\* handler's own field checks; updateUser leaves every user's email as it is.
C4_EmailsAreUnique ==
  /\ [](\A u1, u2 \in users : u1.id # u2.id => u1.email # u2.email)
  /\ [][(HandlerStep("createUser")
          /\ \E u \in users : u.email = resp'.args[1]) =>
          /\ resp'.status = 400
          /\ users' = users
          /\ (resp'.args[2] # Absent /\ resp'.args[3]) =>
               resp'.body.message = "User already exists with this email"
       ]_vars
  /\ [][HandlerStep("updateUser") =>
          /\ {u.id : u \in users'} = {u.id : u \in users}
          /\ \A u \in users, v \in users' : v.id = u.id => v.email = u.email
       ]_vars

\* A second user exists and a createUser with a taken email was refused.
C4_Witness ==
  /\ resp.handler = "createUser"
  /\ resp.status = 400
  /\ resp.body.message = "User already exists with this email"
  /\ Cardinality(users) >= 2

\* C10: every response of a user/ward controller handler is a JSON body with
\* a boolean success field and a message field.
C10_UniformEnvelope ==
  resp.handler # "none" =>
    /\ "success" \in DOMAIN resp.body
    /\ resp.body.success \in BOOLEAN
    /\ "message" \in DOMAIN resp.body

\* Sub-zones point to wards, complaints to wards and sub-zones that exist.
ReferencesResolve ==
  /\ \A z \in subZones : \E w \in wards : w.id = z.wardId
  /\ \A c \in complaints :
       /\ \E w \in wards : w.id = c.wardId
       /\ \E z \in subZones : z.id = c.subZoneId

WardTablesUnchanged == UNCHANGED <<wards, subZones, complaints>>

\* C5 as stated: references always resolve; deleteWard answers 400 while a
\* user or a complaint references the ward, deleteSubZone answers 400 while
\* a complaint references the sub-zone, createSubZone answers 404 for a
\* missing ward, updateSubZone and deleteSubZone answer 400 when the
\* sub-zone does not belong to the ward in the path.
C5_RefusedWith400 ==
  /\ []ReferencesResolve
  /\ [][(HandlerStep("deleteWard")
          /\ \/ \E u \in users : u.wardId = resp'.args[1]
             \/ \E c \in complaints : c.wardId = resp'.args[1]) =>
          resp'.status = 400 /\ WardTablesUnchanged
       ]_vars
  /\ [][(HandlerStep("deleteSubZone")
          /\ \E c \in complaints : c.subZoneId = resp'.args[2]) =>
          resp'.status = 400 /\ WardTablesUnchanged
       ]_vars
  /\ [][(HandlerStep("createSubZone")
          /\ ~\E w \in wards : w.id = resp'.args[1]) =>
          resp'.status = 404 /\ WardTablesUnchanged
       ]_vars
  /\ [][((HandlerStep("updateSubZone") \/ HandlerStep("deleteSubZone"))
          /\ \E z \in subZones :
               z.id = resp'.args[2] /\ z.wardId # resp'.args[1]) =>
          resp'.status = 400 /\ WardTablesUnchanged
       ]_vars

\* C5: after any sequence of createWard, deleteWard, createSubZone,
\* updateSubZone and deleteSubZone calls every sub-zone's ward exists and
\* every complaint's ward and sub-zone exist. deleteWard answers 400 and
\* changes nothing while a user or a complaint references the ward;
\* deleteSubZone changes nothing while a complaint references the sub-zone
\* and answers 400 when the ward in the path exists, 404 when it does not;
\* createSubZone answers 404 for a missing ward; updateSubZone and
\* deleteSubZone answer 400 and change nothing when the ward in the path
\* exists and the sub-zone belongs to another ward.
C5_ReferentialIntegrity ==
  /\ []ReferencesResolve
  /\ [][(HandlerStep("deleteWard")
          /\ \/ \E u \in users : u.wardId = resp'.args[1]
             \/ \E c \in complaints : c.wardId = resp'.args[1]) =>
          resp'.status = 400 /\ WardTablesUnchanged
       ]_vars
  /\ [][(HandlerStep("deleteSubZone")
          /\ \E c \in complaints : c.subZoneId = resp'.args[2]) =>
          /\ WardTablesUnchanged
          /\ resp'.status \in {400, 404}
          /\ (\E w \in wards : w.id = resp'.args[1]) => resp'.status = 400
       ]_vars
  /\ [][(HandlerStep("createSubZone")
          /\ ~\E w \in wards : w.id = resp'.args[1]) =>
          resp'.status = 404 /\ WardTablesUnchanged
       ]_vars
  /\ [][((HandlerStep("updateSubZone") \/ HandlerStep("deleteSubZone"))
          /\ \E w \in wards : w.id = resp'.args[1]
          /\ \E z \in subZones :
               z.id = resp'.args[2] /\ z.wardId # resp'.args[1]) =>
          resp'.status = 400 /\ WardTablesUnchanged
       ]_vars

\* A deleteWard was refused because a complaint references the ward, after
\* another ward (with its sub-zone) had been deleted.
C5_Witness ==
  /\ resp.handler = "deleteWard"
  /\ resp.status = 400
  /\ \E c \in complaints : c.wardId = resp.args[1]
  /\ Cardinality(wards) = 1
  /\ Cardinality(subZones) = 1

Rows == {kochiComplaints[i] : i \in 1..Len(kochiComplaints)}

\* What calculateSLAStatus was given for a row: resolvedOn || closedOn.
ResolutionGiven(r) ==
  IF r.resolvedOn # NoDate THEN r.resolvedOn ELSE r.closedOn

\* C6 as stated: any two evaluations of calculateSLAStatus given the same
\* submittedOn, deadline and resolvedOn return the same SLA status.
C6_SameInputsSameStatus ==
  \A r1, r2 \in Rows :
    (/\ r1.submittedOn = r2.submittedOn
     /\ r1.deadline = r2.deadline
     /\ ResolutionGiven(r1) = ResolutionGiven(r2)) =>
      r1.slaStatus = r2.slaStatus

\* C6: any two evaluations of calculateSLAStatus given the same current
\* status and the same deadline at the same clock reading return the same
\* SLA status, whatever submittedOn and resolvedOn they are given.
C6_SameStatusDeadlineClock ==
  \A r1, r2 \in Rows :
    (/\ r1.status = r2.status
     /\ r1.deadline = r2.deadline
     /\ r1.slaAt = r2.slaAt) =>
      r1.slaStatus = r2.slaStatus

\* Two evaluations agree on status, deadline and clock reading and differ in
\* submittedOn and in the resolution time they were given.
C6_Witness ==
  \E r1, r2 \in Rows :
    /\ r1.status = r2.status /\ r1.deadline = r2.deadline
    /\ r1.slaAt = r2.slaAt
    /\ r1.submittedOn # r2.submittedOn
    /\ ResolutionGiven(r1) # ResolutionGiven(r2)

\* C7: every row's SLA status is COMPLETED exactly when its status is
\* RESOLVED or CLOSED; otherwise it is OVERDUE when the deadline is earlier
\* than the clock reading of the evaluation, WARNING when the deadline is at
\* most one day after it, ON_TIME otherwise; and the deadline is submittedOn
\* plus the slaHours of the row's type.
C7_SlaStatusByDeadline ==
  \A r \in Rows :
    /\ (r.slaStatus = "COMPLETED") <=> (r.status \in {"RESOLVED", "CLOSED"})
    /\ r.status \notin {"RESOLVED", "CLOSED"} =>
         r.slaStatus =
           IF r.deadline < r.slaAt THEN "OVERDUE"
           ELSE IF r.deadline <= r.slaAt + HoursPerDay THEN "WARNING"
           ELSE "ON_TIME"
    /\ r.deadline = r.submittedOn + SlaHours(r.type)

\* The seed has produced an open complaint whose deadline is exactly one
\* day after the evaluation (WARNING) and one that is OVERDUE.
C7_Witness ==
  /\ \E r \in Rows :
       r.slaStatus = "WARNING" /\ r.deadline = r.slaAt + HoursPerDay
  /\ \E r \in Rows : r.slaStatus = "OVERDUE"

\* The validator chain of a route, if it has one.
RouteValidators(route) ==
  {Pipeline(route)[i] : i \in 1..Len(Pipeline(route))} \cap ValidatorNames

\* The body as it stands when the route's validators read it.
BodyAtValidators(req) ==
  IF \E i \in 1..Len(Pipeline(req.route)) :
       Pipeline(req.route)[i] = "sanitizeInputs"
  THEN [f \in Fields |-> sanitizeValue(req.body[f])]
  ELSE req.body

\* The request fails a validator of its route.
FailsValidation(req) ==
  \E v \in RouteValidators(req.route) :
    ChainErrors(v, BodyAtValidators(req)) # << >>

ValidatorRan == \E i \in 1..Len(guestResp.ran) : guestResp.ran[i] \in ValidatorNames

\* C8: a request that fails a validator of its route does not reach the
\* controller; when its validator chain ran, the answer is 400 with the body
\* {success: false, message: "Validation failed", data: {errors: [...]}},
\* one {field, message, value} entry for each failure; and a request whose
\* validator chain ran reaches the controller only without a failure.
C8_InvalidNeverReachesController ==
  /\ (guestReq.route # "none" /\ ~guestPending /\ FailsValidation(guestReq)) =>
       /\ guestResp.controller = Null
       /\ ValidatorRan =>
            /\ guestResp.status = 400
            /\ guestResp.body.success = FALSE
            /\ guestResp.body.message = "Validation failed"
            /\ DOMAIN guestResp.body = {"success", "message", "data"}
            /\ DOMAIN guestResp.body.data = {"errors"}
            /\ Len(guestResp.body.data.errors) >= 1
            /\ \A i \in 1..Len(guestResp.body.data.errors) :
                 DOMAIN guestResp.body.data.errors[i] =
                   {"field", "message", "value"}
  /\ (ValidatorRan /\ guestResp.controller # Null) =>
       ~FailsValidation(guestReq)

\* A request with markup that leaves too short a name was answered 400 by
\* the validators of /verify-otp.
C8_Witness ==
  /\ guestReq.route = "/verify-otp"
  /\ guestReq.body.fullName = "<i>A</i>"
  /\ guestResp.status = 400
  /\ guestResp.controller = Null
  /\ ValidatorRan
  /\ guestResp.body.data.errors[1].field = "fullName"

\* C9: every guest route that accepts a body runs sanitizeInputs and a
\* validator chain before its controller is invoked.
C9_SanitizedAndValidated ==
  guestResp.controller # Null =>
    /\ \E i \in 1..Len(guestResp.ran) : guestResp.ran[i] = "sanitizeInputs"
    /\ ValidatorRan

\* The router has handled a request that carried a file on a route with the
\* upload middleware.
UploadRan ==
  /\ guestReq.route # "none" /\ ~guestPending
  /\ guestReq.file # NoFile
  /\ \E i \in 1..Len(guestResp.ran) : guestResp.ran[i] = "upload"

\* C11: the upload stores a file if and only if the lowercased extension of
\* its original name is exactly one of jpeg, jpg, png, gif, pdf, doc, docx,
\* txt; a file with any other extension is refused with the 'Invalid file
\* type' error and is not stored.
C11_OnlyListedExtensionsStored ==
  UploadRan =>
    LET ext == substring1(toLowerCase(extname(guestReq.file))) IN
    /\ (guestResp.stored = {guestReq.file}) <=> (ext \in AllowedTypes)
    /\ ext \notin AllowedTypes =>
         guestResp.stored = {} /\ guestResp.uploadError = InvalidFileType

SelectorsReturn(wardList) ==
  \A i \in 1..Len(wardList) :
    selectSubZonesByWardId(wardList[i].id) \in wardList[i].subZones

\* C13: once the answer of a getWards query with include=subzones has been
\* dispatched, selectSubZonesByWardId gives for every ward of the answer
\* exactly the sub-zones the answer has for it, whatever the store held.
C13_DeepResponseReachesSelectors ==
  [][\A query \in wardQueries :
       (OnQueryStarted(query) /\ query.includeSubzones /\ query.data.success)
         => SelectorsReturn(wardsWithSubZones(query.data.wards))']_vars

\* C14: a payload in which no ward has a non-empty subZones array replaces
\* the wards list and leaves the sub-zone map as it was; and in whatever
\* order answers with and without sub-zones are processed, the selectors
\* keep returning the sub-zones of the last answer with include=subzones.
C14_ShallowNeverWipes ==
  [][/\ \A query \in wardQueries :
          (/\ OnQueryStarted(query)
           /\ query.data.success
           /\ ~hasSubZones(wardsWithSubZones(query.data.wards)))
            => /\ locations'.wards = Defined(wardsWithSubZones(query.data.wards))
               /\ locations'.subZones = locations.subZones
     /\ \A wardList \in lastDeep' : SelectorsReturn(wardList)']_vars

ActiveAdministrators == {u \in users : u.role = "ADMINISTRATOR" /\ u.isActive}

\* C15: a deleteUser call never takes the last active administrator away:
\* if there was one before the call there is one after it; on an
\* administrator while at most one is active it answers 400 'Cannot delete
\* the last administrator' and changes no user; an accepted call only sets
\* the target's isActive to false, and no call removes a record.
C15_LastAdministratorStays ==
  [][HandlerStep("deleteUser") =>
       LET id == resp'.args[1]
           target == {u \in users : u.id = id}
       IN
       /\ ActiveAdministrators # {} => ActiveAdministrators' # {}
       /\ (/\ \E u \in target : u.role = "ADMINISTRATOR"
           /\ Cardinality(ActiveAdministrators) <= 1)
            => /\ resp'.status = 400
               /\ resp'.body.message = "Cannot delete the last administrator"
               /\ users' = users
       /\ resp'.status = 200 =>
            \E u \in target :
              users' = (users \ {u}) \cup {[u EXCEPT !.isActive = FALSE]}
       /\ {u.id : u \in users'} = {u.id : u \in users}]_vars

\* One administrator was deactivated while two were active, and the call
\* on the remaining one was refused.
C15_Witness ==
  /\ resp.handler = "deleteUser" /\ resp.status = 400
  /\ resp.body.message = "Cannot delete the last administrator"
  /\ \E u \in users : u.role = "ADMINISTRATOR" /\ ~u.isActive
  /\ \E u \in ActiveAdministrators : u.id = resp.args[1]

\* What C16 says of one setPasswordAfterOTP call, with the statuses a
\* refused call may have.
SetPasswordAsClaimed(refusals) ==
  HandlerStep("setPasswordAfterOTP") =>
    LET target == {u \in users : u.id = resp'.args[1]} IN
    /\ resp'.status = 200 =>
         \E u \in target :
           /\ ~HasValidPassword(u.password)
           /\ \E s \in otpSessions :
                /\ s.email = u.email /\ s.purpose = "PASSWORD_SETUP"
                /\ s.isVerified /\ s.verifiedAt > now - 30
           /\ \E v \in users' : v.id = u.id /\ HasValidPassword(v.password)
    /\ resp'.status # 200 => resp'.status \in refusals /\ users' = users

\* A password that is set stays: no step of the password setup unsets it.
ValidPasswordsStay ==
  \A u \in users : HasValidPassword(u.password) =>
    \E v \in users' : v.id = u.id /\ HasValidPassword(v.password)

\* C16 as stated: setPasswordAfterOTP sets the password only when the
\* user's email has a PASSWORD_SETUP session verified less than 30 minutes
\* ago and the user has no valid password; every other call answers 400 and
\* leaves the users alone; a set password stays, so the same verified
\* session never serves a second time.
C16_EveryRefusalIs400 ==
  [][SetPasswordAsClaimed({400}) /\ ValidPasswordsStay]_vars

\* C16, amended: a refused call answers 400, or 404 when the user of the
\* request does not exist.
C16_SetOnlyAfterVerifiedOtp ==
  [][SetPasswordAsClaimed({400, 404}) /\ ValidPasswordsStay]_vars

\* The password was set, and the second call, with the verified session
\* still inside its 30 minutes, was refused.
C16_Witness ==
  /\ resp.handler = "setPasswordAfterOTP" /\ resp.status = 400
  /\ resp.body.message = "Password already set. Use change password instead."
  /\ \E u \in users : u.id = resp.args[1] /\ HasValidPassword(u.password)
       /\ \E s \in otpSessions : IsVerifiedSession(s, u.email, now)

\* The PASSWORD_SETUP sessions of an email a code can still be verified
\* against at time t: unverified and unexpired.
UsableSessions(sessions, email, t) ==
  {s \in sessions : /\ s.email = email /\ s.purpose = "PASSWORD_SETUP"
                    /\ ~s.isVerified /\ s.expiresAt > t}

\* C17: at every moment an email has at most one PASSWORD_SETUP session
\* that is unverified and unexpired; a sendPasswordSetupOTP call that gets
\* as far as creating a session leaves every session that was usable before
\* it expired; when the email was sent the new session is the only usable
\* one, and when it was not the call answers 500 and none is usable.
C17_AtMostOneUsableSession ==
  [][/\ \A u \in users' :
          Cardinality(UsableSessions(otpSessions', u.email, now')) <= 1
     /\ (HandlerStep("sendPasswordSetupOTP") /\ resp'.status \in {200, 500}) =>
          \E u \in users :
            /\ u.id = resp'.args[1]
            /\ \A s \in UsableSessions(otpSessions, u.email, now) :
                 \E r \in otpSessions' : r.id = s.id /\ r.expiresAt <= now
            /\ resp'.status = 200 =>
                 \E r \in otpSessions' \ otpSessions :
                   /\ r.otpCode = resp'.args[2]
                   /\ UsableSessions(otpSessions', u.email, now) = {r}
            /\ resp'.status = 500 =>
                 /\ UsableSessions(otpSessions', u.email, now) = {}
                 /\ Cardinality(otpSessions') = Cardinality(otpSessions) + 1]_vars

\* A code was sent, and the next call could not send its email: both
\* sessions are there and neither is usable.
C17_Witness ==
  /\ resp.handler = "sendPasswordSetupOTP" /\ resp.status = 500
  /\ \E u \in users :
       /\ u.id = resp.args[1]
       /\ UsableSessions(otpSessions, u.email, now) = {}
       /\ Cardinality({s \in otpSessions :
            s.email = u.email /\ s.purpose = "PASSWORD_SETUP"}) >= 2

\* The users whose password column holds the digest of the token as a
\* verification token that has not expired.
HoldersOf(token) ==
  {u \in users : /\ u.password.kind = "token"
                 /\ u.password.resetPasswordToken = sha256(token)
                 /\ u.password.isVerificationToken
                 /\ u.password.resetPasswordExpire > now}

\* C18: a verification token is accepted at most once and only before its
\* expiry, 24 hours after createUser issued it: verifyAccount succeeds only
\* when a user's password column holds the token's digest with the flag and
\* an expiry later than now; the success puts the hashed password there;
\* a call with a token that was accepted before answers 400 'Invalid or
\* expired verification token'.
C18_TokenAcceptedAtMostOnce ==
  [][/\ HandlerStep("verifyAccount") =>
          LET token == resp'.args[1] IN
          /\ resp'.status = 200 =>
               /\ token \notin verifiedTokens
               /\ \E u \in HoldersOf(token) : \E v \in users' :
                    /\ v.id = u.id /\ v.password.kind = "hash"
                    /\ users' \ {v} = users \ {u}
          /\ token \in verifiedTokens =>
               /\ resp'.status = 400
               /\ resp'.body.message = "Invalid or expired verification token"
               /\ users' = users
     /\ (HandlerStep("createUser") /\ resp'.status = 201) =>
          \A u \in users' \ users :
            /\ u.role \in {"WARD_OFFICER", "MAINTENANCE_TEAM"}
            /\ u.password.kind = "token"
            /\ u.password.resetPasswordExpire = now + 24 * 60]_vars

\* The token was accepted, and the second call with it was refused.
C18_Witness ==
  /\ resp.handler = "verifyAccount" /\ resp.status = 400
  /\ resp.args[1] \in verifiedTokens

\* C19: a createUser call for a WARD_OFFICER or MAINTENANCE_TEAM user that
\* gets as far as the verification email and cannot send it answers 500
\* 'Failed to send verification email. User creation cancelled.' and
\* leaves the users exactly as they were before the call.
C19_FailedEmailCancelsCreation ==
  [][\A email \in VerifyEmails, role \in {"WARD_OFFICER", "MAINTENANCE_TEAM"} :
       (/\ CreateUser(TRUE, email, role, Absent, FALSE)
        /\ \A u \in users : u.email # email)
         => /\ resp'.status = 500
            /\ resp'.body.success = FALSE
            /\ resp'.body.message =
                 "Failed to send verification email. User creation cancelled."
            /\ users' = users]_vars

\* An officer was created, and the creation of the next one was cancelled.
C19_Witness ==
  /\ resp.handler = "createUser" /\ resp.status = 500
  /\ resp.body.message =
       "Failed to send verification email. User creation cancelled."
  /\ \A u \in users : u.email # resp.args[1]
  /\ \E u \in users : u.role \in VerificationRoles

\* C20: a handleSubmit call that has set isSubmittingLocal has set it back
\* to false by the time it is over (on success, on an API failure and on
\* every rejection: CAPTCHA, required field, sub-zone): while no call is
\* awaiting the API the flag is false, so the form accepts a submission.
C20_SubmitLockReleased ==
  formPc = "idle" => ~isSubmittingLocal

\* C21: a form has at most one createComplaint or OTP-initiation request
\* in flight: a handleSubmit call that comes while another is in progress
\* sends nothing, also when its event is handled before the re-render.
C21_AtMostOneRequestInFlight ==
  inFlight <= 1

\* C22: when two concurrent deleteUser requests, for the two different
\* administrators that are active, have both completed, an active
\* administrator remains.
C22_GuardHoldsUnderInterleaving ==
  (/\ \A r \in DOMAIN deleteReq : deleteReq[r].pc = "done"
   /\ {deleteReq[r].id : r \in DOMAIN deleteReq} = {1, 2})
    => ActiveAdministrators # {}

\* C23: from a state with an active administrator, whatever deleteUser and
\* updateUser calls follow, some user has role ADMINISTRATOR and isActive
\* true.
C23_AnAdministratorRemains ==
  \E u \in users : u.role = "ADMINISTRATOR" /\ u.isActive = TRUE

\* C24: an answer whose body has success === false never comes out of
\* baseQueryWithReauth as a data result: whatever its HTTP status it is an
\* error result whose data is the body, and onQueryStarted dispatches no
\* setWardsWithSubZones for it.
C24_SuccessFalseIsAnError ==
  [][\A query \in wardQueries :
       (OnQueryStarted(query) /\ query.data.success = FALSE) =>
         /\ queryResult'.data = {}
         /\ \E error \in queryResult'.error :
              error.status = query.status /\ error.data = query.data
         /\ locations' = locations
         /\ lastDeep' = lastDeep]_vars

\* An answer with status 200 and success false, which names a ward with
\* sub-zones, came back as an error, and the store does not have the ward.
C24_Witness ==
  /\ \E error \in queryResult.error :
       error.status = 200 /\ error.data = RefusedResponse
  /\ locations.subZones["w1"] = {}

\* C25: whenever the seed assigns a complaintId, no complaint of the table
\* has that id: not a row of this run, since the counter grows by one with
\* every row, and not a row of an earlier run, however many runs came before.
C25_AssignedIdsAreNew ==
  [][kochiPc = "loop" /\ complaintCounter' = complaintCounter + 1
       => complaintIdOf(complaintCounter) \notin complaintTable]_vars

======================================================================
